---- MODULE Spec2Model ----
(***************************************************************************)
(* Model of the PDF normalization and auto-fix pipeline of the legal       *)
(* document organiser (src/src/App.tsx, src/src/lib/pdf-security.ts).      *)
(*                                                                         *)
(* Lengths are in hundredths of a PDF point, so that A4 (595.28 x 841.89), *)
(* the detector tolerance (5pt) and the scaling threshold (0.5pt) are      *)
(* integers.  A byte buffer is modelled by the document it encodes plus a  *)
(* tag naming the serialization that produced it, so two buffers are equal *)
(* only if the same save produced them from the same content.              *)
(***************************************************************************)
EXTENDS Integers, Sequences, FiniteSets, TLC

\* ------------------------------------------------------------------ bounds
MaxPages == 2
MaxCoverRequests == 2
MaxModifications == 2
MaxPasswordTries == 2
MaxMessages == 2
MaxFields == 2
MaxFiles == 3

\* --------------------------------------------------------------- constants
A4_WIDTH == 59528
A4_HEIGHT == 84189
IssueTolerance == 500
ScalingThreshold == 50
TEXT_ORIENTATION_TOLERANCE_DEG == 20
RIGHT_ANGLES == <<0, 90, 180, 270>>
NullAngle == -1

Min(a, b) == IF a <= b THEN a ELSE b
Abs(a) == IF a < 0 THEN -a ELSE a
\* JavaScript's % keeps the sign of the dividend.
JsRem(a, b) == IF a >= 0 THEN a % b ELSE -((-a) % b)

\* Optional values: null or undefined, or a value.
None == <<>>
Some(x) == <<x>>
IsSome(o) == o # <<>>
Get(o) == o[1]

\* ------------------------------------------------------------- angle math
normalizeAngle(angle) ==
    LET normalized == JsRem(angle, 360)
    IN  IF normalized < 0 THEN normalized + 360 ELSE normalized

circularDistance(a, b) ==
    LET diff == Abs(normalizeAngle(a) - normalizeAngle(b))
    IN  Min(diff, 360 - diff)

\* Mutant: a candidate as near as the best so far replaces it.
closerThanBest_OrEqual(distance, bestDistance) ==
    IF IsSome(bestDistance) THEN distance <= Get(bestDistance) ELSE TRUE

\* distance < bestDistance, where bestDistance starts at +Infinity (None).
closerThanBest(distance, bestDistance) ==
    IF IsSome(bestDistance) THEN distance < Get(bestDistance) ELSE TRUE

\* The loop of snapToRightAngle from the k-th candidate on.
RECURSIVE snapLoop(_, _, _, _)
snapLoop(angle, k, best, bestDistance) ==
    IF k > Len(RIGHT_ANGLES)
    THEN best
    ELSE LET candidate == RIGHT_ANGLES[k]
             distance == circularDistance(angle, candidate)
         IN  IF closerThanBest(distance, bestDistance)
             THEN snapLoop(angle, k + 1, candidate, Some(distance))
             ELSE snapLoop(angle, k + 1, best, bestDistance)

snapToRightAngle(angle) == snapLoop(angle, 1, 0, None)

RotationCandidate(currentPageRotation, dominantTextAngle, finalRotation) ==
    LET delta == normalizeAngle(finalRotation - currentPageRotation)
        finalTextAngle == normalizeAngle(dominantTextAngle + finalRotation)
    IN  [finalRotation |-> finalRotation,
         bestAllowedDistance |-> Min(circularDistance(finalTextAngle, 0),
                                     circularDistance(finalTextAngle, 90)),
         turnCost |-> Min(delta, 360 - delta)]

\* Mutant: the candidates are ranked by turning cost alone.
CompareCandidates_TurnCostOnly(a, b) == a.turnCost - b.turnCost

CompareCandidates(a, b) ==
    IF a.bestAllowedDistance # b.bestAllowedDistance
    THEN a.bestAllowedDistance - b.bestAllowedDistance
    ELSE a.turnCost - b.turnCost

\* Mutant: without text evidence the page keeps its rotation.
chooseFinalPageRotationForPortrait_KeepsCurrent(currentPageRotation, dominantTextAngle) ==
    IF dominantTextAngle = NullAngle
    THEN currentPageRotation
    ELSE LET c0 == RotationCandidate(currentPageRotation, dominantTextAngle, 0)
             c180 == RotationCandidate(currentPageRotation, dominantTextAngle, 180)
         IN  IF CompareCandidates(c0, c180) > 0
             THEN c180.finalRotation
             ELSE c0.finalRotation

chooseFinalPageRotationForPortrait(currentPageRotation, dominantTextAngle) ==
    IF dominantTextAngle = NullAngle
    THEN 0
    ELSE LET c0 == RotationCandidate(currentPageRotation, dominantTextAngle, 0)
             c180 == RotationCandidate(currentPageRotation, dominantTextAngle, 180)
         IN  \* stable sort of [c0, c180]: c180 comes first only if strictly smaller
             IF CompareCandidates(c0, c180) > 0
             THEN c180.finalRotation
             ELSE c0.finalRotation

\* Mutant: the text angle is judged without the page's rotation.
getUpsideDownCorrectionFromAngle_IgnoresRotation(dominantTextAngle, pageRotation) ==
    IF dominantTextAngle = NullAngle
    THEN 0
    ELSE LET allowedDistance == Min(circularDistance(dominantTextAngle, 0),
                                    circularDistance(dominantTextAngle, 90))
             upsideDistance == Min(circularDistance(dominantTextAngle, 180),
                                   circularDistance(dominantTextAngle, 270))
         IN  IF upsideDistance <= TEXT_ORIENTATION_TOLERANCE_DEG
                /\ upsideDistance < allowedDistance
             THEN 180
             ELSE 0

getUpsideDownCorrectionFromAngle(dominantTextAngle, pageRotation) ==
    IF dominantTextAngle = NullAngle
    THEN 0
    ELSE LET visibleTextAngle == normalizeAngle(dominantTextAngle + pageRotation)
             allowedDistance == Min(circularDistance(visibleTextAngle, 0),
                                    circularDistance(visibleTextAngle, 90))
             upsideDistance == Min(circularDistance(visibleTextAngle, 180),
                                   circularDistance(visibleTextAngle, 270))
         IN  IF upsideDistance <= TEXT_ORIENTATION_TOLERANCE_DEG
                /\ upsideDistance < allowedDistance
             THEN 180
             ELSE 0


\* ------------------------------------------------------ documents and bytes
\* A page as the object-model parser sees it.  angle is the dominant reading
\* direction of the page's text in content space (NullAngle: no usable text);
\* bad says what the parser cannot do with the page object: "read" (getPage,
\* getSize or getRotation throws) or "mutate" (the page reads, but rewriting
\* its content stream throws).
MkPage(id, width, height, rotation, angle, bad) ==
    [id |-> id, width |-> width, height |-> height, rotation |-> rotation,
     angle |-> angle, bad |-> bad]

MkDoc(tag, loadOK, encrypted, perms, sigFlags, sigField, pages) ==
    [tag |-> tag, loadOK |-> loadOK, encrypted |-> encrypted, perms |-> perms,
     sigFlags |-> sigFlags, sigField |-> sigField, pages |-> pages]

Rotations == {0, 90, 180, 270}
Angles == {NullAngle, 0, 90, 180, 270}

\* Page shapes of the inputs: every rotation and text angle on a landscape
\* A4 box, and a few portrait boxes (exact A4, US Letter, A4 within 0.5pt,
\* A4 within 5pt), plus one page of each malformed sort.
PageShapes ==
    {<<A4_HEIGHT, A4_WIDTH, r, a, "ok">> : r \in Rotations, a \in Angles}
    \cup {<<A4_WIDTH, A4_HEIGHT, r, a, "ok">> : r \in {0, 90}, a \in {NullAngle, 180}}
    \cup {<<61200, 79200, 0, a, "ok">> : a \in {NullAngle, 0}}
    \cup {<<59550, 84200, 0, NullAngle, "ok">>, <<59900, 84000, 0, 0, "ok">>}
    \cup {<<A4_HEIGHT, A4_WIDTH, 90, 90, "read">>,
          <<A4_HEIGHT, A4_WIDTH, 90, 90, "mutate">>}

\* Shapes of the pages after the first one.
TailShapes ==
    {<<A4_WIDTH, A4_HEIGHT, 0, NullAngle, "ok">>,
     <<A4_HEIGHT, A4_WIDTH, 90, 90, "ok">>,
     <<A4_HEIGHT, A4_WIDTH, 0, 180, "ok">>,
     <<A4_HEIGHT, A4_WIDTH, 90, 90, "read">>,
     <<A4_HEIGHT, A4_WIDTH, 90, 90, "mutate">>}

\* Page shapes of the protected or unparseable inputs.
FewShapes ==
    {<<A4_WIDTH, A4_HEIGHT, 0, NullAngle, "ok">>,
     <<A4_HEIGHT, A4_WIDTH, 90, 90, "ok">>,
     <<A4_HEIGHT, A4_WIDTH, 90, 90, "read">>}

ShapeSeqs(shapes, minLen, maxLen) ==
    UNION {[1..n -> shapes] : n \in minLen..maxLen}

PagesOf(shapeSeq) ==
    [i \in 1..Len(shapeSeq) |->
        MkPage(i, shapeSeq[i][1], shapeSeq[i][2], shapeSeq[i][3],
               shapeSeq[i][4], shapeSeq[i][5])]

\* The files a user can upload: unprotected parseable documents of 1 to
\* MaxPages pages (any shape first, then tail shapes), and documents with
\* every combination of protections, parseable or not, over a few shapes.
RawDocs ==
    {MkDoc("raw", TRUE, FALSE, FALSE, FALSE, FALSE, PagesOf(<<first>> \o rest)) :
            first \in PageShapes, rest \in ShapeSeqs(TailShapes, 0, MaxPages - 1)}
    \cup {MkDoc("raw", l, e, p, sf, sg, PagesOf(ss)) :
            l \in BOOLEAN, e \in BOOLEAN, p \in BOOLEAN, sf \in BOOLEAN,
            sg \in BOOLEAN, ss \in ShapeSeqs(FewShapes, 1, MaxPages)}

\* ------------------------------------------------------ pdf-security.ts
hasSignatureData(doc) == doc.sigFlags \/ doc.sigField

\* Mutant: the form fields are not scanned, only SigFlags counts.
getBypassReasons_SigFlagsOnly(doc) ==
    (IF doc.encrypted THEN <<"encryption">> ELSE <<>>)
    \o (IF doc.perms THEN <<"certification">> ELSE <<>>)
    \o (IF doc.sigFlags THEN <<"signature">> ELSE <<>>)

getBypassReasons(doc) ==
    (IF doc.encrypted THEN <<"encryption">> ELSE <<>>)
    \o (IF doc.perms THEN <<"certification">> ELSE <<>>)
    \o (IF hasSignatureData(doc) THEN <<"signature">> ELSE <<>>)

\* Page copy carries the pages and none of the document-level structures.
copyPagesIntoFreshDocument(sourceDoc) ==
    MkDoc("copied", TRUE, FALSE, FALSE, FALSE, FALSE, sourceDoc.pages)

\* stripSecurityEntries followed by save: Perms, SigFlags and Encrypt go,
\* signature fields stay.
stripAndSave(sourceDoc) ==
    MkDoc("stripped", TRUE, FALSE, FALSE, FALSE, sourceDoc.sigField,
          sourceDoc.pages)

NormalizeResult(bytes, bypassApplied, reasons) ==
    [bytes |-> bytes, bypassApplied |-> bypassApplied, reasons |-> reasons]

\* Mutant: the in-place rewrite is tried before the page copy.
normalizePdfForEditing_StripFirst(bytes, copyOK, stripOK) ==
    IF ~bytes.loadOK
    THEN NormalizeResult(bytes, FALSE, <<>>)
    ELSE LET reasons == getBypassReasons(bytes)
         IN  IF Len(reasons) = 0
             THEN NormalizeResult(bytes, FALSE, reasons)
             ELSE IF stripOK
             THEN NormalizeResult(stripAndSave(bytes), TRUE, reasons)
             ELSE IF copyOK
             THEN NormalizeResult(copyPagesIntoFreshDocument(bytes), TRUE, reasons)
             ELSE NormalizeResult(bytes, FALSE, reasons)

\* Mutant: no early return when no protection was found.
normalizePdfForEditing_AlwaysCopies(bytes, copyOK, stripOK) ==
    IF ~bytes.loadOK
    THEN NormalizeResult(bytes, FALSE, <<>>)
    ELSE LET reasons == getBypassReasons(bytes)
         IN  IF copyOK
             THEN NormalizeResult(copyPagesIntoFreshDocument(bytes), TRUE, reasons)
             ELSE IF stripOK
             THEN NormalizeResult(stripAndSave(bytes), TRUE, reasons)
             ELSE NormalizeResult(bytes, FALSE, reasons)

\* copyOK, stripOK: whether the copy, and the in-place rewrite, complete
\* without throwing.
normalizePdfForEditing(bytes, copyOK, stripOK) ==
    IF ~bytes.loadOK
    THEN NormalizeResult(bytes, FALSE, <<>>)
    ELSE LET reasons == getBypassReasons(bytes)
         IN  IF Len(reasons) = 0
             THEN NormalizeResult(bytes, FALSE, reasons)
             ELSE IF copyOK
             THEN NormalizeResult(copyPagesIntoFreshDocument(bytes), TRUE, reasons)
             ELSE IF stripOK
             THEN NormalizeResult(stripAndSave(bytes), TRUE, reasons)
             ELSE NormalizeResult(bytes, FALSE, reasons)

\* ------------------------------------------------- prepareEditablePdfBytes
canReadAllPages(bytes) ==
    /\ bytes.loadOK
    /\ \A i \in 1..Len(bytes.pages) : bytes.pages[i].bad # "read"

\* Mutant: the page loop stops one page early.
rasterizePdfToEditableA4_DropsLastPage(pdfBytes) ==
    MkDoc("raster", TRUE, FALSE, FALSE, FALSE, FALSE,
          [i \in 1..(Len(pdfBytes.pages) - 1) |->
              MkPage(pdfBytes.pages[i].id, A4_WIDTH, A4_HEIGHT, 0, NullAngle, "ok")])

\* One image page per page the rendering engine enumerates, in order.
rasterizePdfToEditableA4(pdfBytes) ==
    MkDoc("raster", TRUE, FALSE, FALSE, FALSE, FALSE,
          [i \in 1..Len(pdfBytes.pages) |->
              MkPage(pdfBytes.pages[i].id, A4_WIDTH, A4_HEIGHT, 0, NullAngle, "ok")])

\* Mutant: the readability probe is not consulted.
prepareUsesNormalized_NoProbe(normalizedResult) ==
    ~normalizedResult.bypassApplied

\* The branch of prepareEditablePdfBytes: TRUE when the normalized bytes go
\* to the structural auto-fixer, FALSE when the raw bytes are rasterized.
prepareUsesNormalized(normalizedResult) ==
    ~normalizedResult.bypassApplied /\ canReadAllPages(normalizedResult.bytes)


\* ------------------------------------------------------- getIssuesFromDoc
PageIssue(pageIndex, issueType, description) ==
    [pageIndex |-> pageIndex, issueType |-> issueType, description |-> description]

\* The issue of one page (page indices count from 0), as a list of 0 or 1.
issueOfPage(page, index) ==
    IF page.bad = "read"
    THEN <<PageIssue(index, "both", <<"Malformed page object">>)>>
    ELSE LET isPortrait == page.height >= page.width
             isPortraitRotation == JsRem(page.rotation, 180) = 0
             isA4Dimensions == /\ Abs(page.width - A4_WIDTH) <= IssueTolerance
                               /\ Abs(page.height - A4_HEIGHT) <= IssueTolerance
             t1 == IF ~isPortrait THEN "orientation" ELSE "size"
             t2 == IF ~isA4Dimensions THEN "size" ELSE t1
             t3 == IF ~isPortraitRotation THEN "orientation" ELSE t2
             type == IF (~isPortrait \/ ~isPortraitRotation) /\ ~isA4Dimensions
                     THEN "both"
                     ELSE t3
             parts == (IF ~isPortrait THEN <<"Landscape Page Box">> ELSE <<>>)
                      \o (IF ~isA4Dimensions THEN <<"Non-A4 Size">> ELSE <<>>)
                      \o (IF ~isPortraitRotation
                          THEN <<"Sideways Page Rotation">>
                          ELSE <<>>)
         IN  IF ~isPortrait \/ ~isA4Dimensions \/ ~isPortraitRotation
             THEN <<PageIssue(index, type, parts)>>
             ELSE <<>>

RECURSIVE issuesUpTo(_, _)
issuesUpTo(pages, n) ==
    IF n = 0
    THEN <<>>
    ELSE issuesUpTo(pages, n - 1) \o issueOfPage(pages[n], n - 1)

getIssuesFromDoc(doc) == issuesUpTo(doc.pages, Len(doc.pages))

\* ----------------------------------------------------- detectDominantTextAngles
\* The rendering engine reports text transforms in content space, without the
\* page's /Rotate; a uniform positive scale and a translation keep the angle.
detectDominantTextAngles(pdfBytes) ==
    [i \in 1..Len(pdfBytes.pages) |-> pdfBytes.pages[i].angle]

\* ------------------------------------------------- autoFixPdf, first pass
pageThrows(page) == page.bad # "ok"

nextRotationOf(page, detectedTextAngle) ==
    chooseFinalPageRotationForPortrait(normalizeAngle(page.rotation),
                                       detectedTextAngle)

\* Mutant: the detector's 5pt tolerance decides whether scaling is recorded.
sizeChanged_UsesIssueTolerance(page) ==
    \/ Abs(page.width - A4_WIDTH) > IssueTolerance
    \/ Abs(page.height - A4_HEIGHT) > IssueTolerance

sizeChanged(page) ==
    \/ Abs(page.width - A4_WIDTH) > ScalingThreshold
    \/ Abs(page.height - A4_HEIGHT) > ScalingThreshold

\* Mutants of the loop body: the page box is never set; the page box is set
\* only where a scaling fix is recorded.
fixPageFirstPass_NoResize(page, detectedTextAngle) ==
    IF page.bad = "read"
    THEN page
    ELSE [page EXCEPT !.rotation = nextRotationOf(page, detectedTextAngle)]

fixPageFirstPass_ResizeIfChanged(page, detectedTextAngle) ==
    IF page.bad = "read"
    THEN page
    ELSE IF sizeChanged(page)
    THEN [page EXCEPT !.rotation = nextRotationOf(page, detectedTextAngle),
                      !.width = A4_WIDTH,
                      !.height = A4_HEIGHT]
    ELSE [page EXCEPT !.rotation = nextRotationOf(page, detectedTextAngle)]

\* The loop body of the first pass on one page: setRotation, setSize, then the
\* content and annotation transform.  A page that cannot be read is left as it
\* is; a page whose content cannot be rewritten has its rotation and box set
\* before the transform throws.
fixPageFirstPass(page, detectedTextAngle) ==
    IF page.bad = "read"
    THEN page
    ELSE [page EXCEPT !.rotation = nextRotationOf(page, detectedTextAngle),
                      !.width = A4_WIDTH,
                      !.height = A4_HEIGHT]

rotationChanged(page, detectedTextAngle) ==
    nextRotationOf(page, detectedTextAngle) # normalizeAngle(page.rotation)

\* autoFixedPageFixes after the first pass: page index -> which fixes.
firstPassFixes(pages, textAngles) ==
    LET fixed == {i \in 1..Len(pages) :
                    /\ ~pageThrows(pages[i])
                    /\ (rotationChanged(pages[i], textAngles[i]) \/ sizeChanged(pages[i]))}
    IN  [k \in {i - 1 : i \in fixed} |->
            [rotation |-> rotationChanged(pages[k + 1], textAngles[k + 1]),
             scaling |-> sizeChanged(pages[k + 1])]]

firstPassRotatedPages(pages, textAngles) ==
    Cardinality({i \in 1..Len(pages) :
                    /\ pages[i].bad # "read"
                    /\ rotationChanged(pages[i], textAngles[i])})

\* ----------------------------------------- autoFixPdf, upside-down correction
upsideDownPages(firstPassDoc, finalAngles) ==
    {i \in 1..Min(Len(finalAngles), Len(firstPassDoc.pages)) :
        /\ firstPassDoc.pages[i].bad # "read"
        /\ getUpsideDownCorrectionFromAngle(
               finalAngles[i], normalizeAngle(firstPassDoc.pages[i].rotation)) = 180}

\* Mutant: the correction leaves the page as the first pass turned it.
correctPage_NoTurn(page) == page

correctPage(page) ==
    [page EXCEPT !.rotation = normalizeAngle(page.rotation) + 180]

markRotation(fixes, upsideDown) ==
    [k \in DOMAIN fixes \cup {i - 1 : i \in upsideDown} |->
        IF k + 1 \in upsideDown
        THEN [rotation |-> TRUE,
              scaling |-> IF k \in DOMAIN fixes THEN fixes[k].scaling ELSE FALSE]
        ELSE fixes[k]]

fixTypesOf(fixes) ==
    [k \in DOMAIN fixes |->
        (IF fixes[k].rotation THEN <<"rotation">> ELSE <<>>)
        \o (IF fixes[k].scaling THEN <<"scaling">> ELSE <<>>)]


\* ------------------------------------------------------------ autoFixPdf results
Summary(kind, changed, total, rotated, imageOnlyNotice) ==
    [kind |-> kind, changed |-> changed, total |-> total, rotated |-> rotated,
     imageOnlyNotice |-> imageOnlyNotice]

NoSummary == Summary("none", 0, 0, 0, FALSE)

withImageOnlyNotice(summary, imageOnly) ==
    IF ~imageOnly
    THEN summary
    ELSE [summary EXCEPT !.imageOnlyNotice = TRUE]

AutoFixResult(kind, bytes, issues, pageCount, autoFixApplied, summary, fixTypes) ==
    [kind |-> kind, bytes |-> bytes, issues |-> issues, pageCount |-> pageCount,
     autoFixApplied |-> autoFixApplied, autoFixSummary |-> summary,
     autoFixedPageFixTypes |-> fixTypes]

buildRasterizedFallbackResult(pdfBytes) ==
    LET rasterizedBytes == rasterizePdfToEditableA4(pdfBytes)
        pageCount == Len(rasterizedBytes.pages)
    IN  AutoFixResult("raster", rasterizedBytes, getIssuesFromDoc(rasterizedBytes),
                      pageCount, TRUE,
                      Summary("rasterized", pageCount, pageCount, 0, TRUE),
                      [k \in 0..(pageCount - 1) |-> <<"scaling">>])

structuralResult(fixState) ==
    LET changedPages == Cardinality(DOMAIN fixState.fixes)
        autoFixApplied == changedPages > 0
    IN  AutoFixResult("structural", fixState.finalBytes,
                      getIssuesFromDoc(fixState.finalBytes),
                      fixState.pageCount, autoFixApplied,
                      IF autoFixApplied
                      THEN Summary("normalized", changedPages, fixState.pageCount,
                                   fixState.rotatedPages, FALSE)
                      ELSE NoSummary,
                      fixTypesOf(fixState.fixes))

\* Mutant: a throw of the first text detection abandons the attempt too.
structuralFails_OnDetectionThrow(fixState) == fixState.malformed \/ fixState.firstDetectionThrew

\* Mutant: the malformed flag is not checked.
structuralFails_IgnoresFlag(fixState) == FALSE

\* Whether the structural attempt of autoFixPdf is abandoned for the fallback.
structuralFails(fixState) == fixState.malformed

\* The message of the error autoFixPdf throws when the fallback fails too.
TerminalError ==
    "Unable to auto-fix this PDF. The file is unreadable even after rasterization."

NoDoc == MkDoc("none", FALSE, FALSE, FALSE, FALSE, FALSE, <<>>)

FixIdle ==
    [malformed |-> FALSE, pageThrew |-> FALSE, firstDetectionThrew |-> FALSE,
     secondDetectionThrew |-> FALSE, saveThrew |-> FALSE, textAngles |-> <<>>,
     fixes |-> <<>>, rotatedPages |-> 0, pageCount |-> 0,
     firstPassBytes |-> NoDoc, finalBytes |-> NoDoc]

\* ------------------------------------------------------------------ files
PdfFile(id, pageCount, stage, imageOnly, issues, autoFixApplied, summary, fixTypes) ==
    [id |-> id, pageCount |-> pageCount, processingStage |-> stage,
     imageOnly |-> imageOnly, issues |-> issues, autoFixApplied |-> autoFixApplied,
     autoFixSummary |-> summary, autoFixedPageFixTypes |-> fixTypes]

\* { ...file, ...patch }
Spread(file, patch) ==
    [k \in DOMAIN file |-> IF k \in DOMAIN patch THEN patch[k] ELSE file[k]]

Placeholder(id) ==
    PdfFile(id, 0, "uploading", FALSE, <<>>, FALSE, NoSummary, <<>>)

ProcessedFile(id, res, imageOnly) ==
    PdfFile(id, res.pageCount, "done", imageOnly, res.issues, res.autoFixApplied,
            withImageOnlyNotice(res.autoFixSummary, imageOnly),
            res.autoFixedPageFixTypes)

StorePut(store, id, bytes) ==
    [k \in DOMAIN store \cup {id} |-> IF k = id THEN bytes ELSE store[k]]

StoreDelete(store, id) ==
    [k \in DOMAIN store \ {id} |-> store[k]]

\* prev.map((f) => (f.id === id ? { ...f, ...patch } : f))
PatchFiles(files, id, patch) ==
    [i \in 1..Len(files) |->
        IF files[i].id = id THEN Spread(files[i], patch) ELSE files[i]]

\* (prev) => (prev && prev.id === id ? { ...prev, ...patch } : prev)
PatchCover(cover, id, patch) ==
    IF IsSome(cover) /\ Get(cover).id = id
    THEN Some(Spread(Get(cover), patch))
    ELSE cover

\* Mutant: the failed file stays in the list.
RemoveFile_KeepsAll(files, id) == files

RemoveFile(files, id) ==
    LET Keep(f) == f.id # id IN SelectSeq(files, Keep)

\* The id of the file whose upload is followed, and of later cover uploads.
FileId == <<"file", 0>>
LaterCoverId(requestNo) == <<"cover", requestNo>>


\* ------------------------------------------------------------------ state
VARIABLES
    pc,                     \* position of the followed upload in its handler
    target,                 \* "cover" or "individual": which handler runs
    rawBytes,               \* the uploaded file's bytes
    normalized,             \* result of normalizePdfForEditing, if computed
    prepared,               \* result of prepareEditablePdfBytes, if returned
    fix,                    \* locals of autoFixPdf's structural attempt
    result,                 \* what autoFixPdf returned, if it returned
    errorMsg,               \* message of the error the handler caught
    requestId,              \* the followed cover upload's request id
    coverUploadRequestId,   \* coverUploadRequestIdRef.current
    coverFile,              \* React state: the cover, or None
    individualFiles,        \* React state: the list of documents
    bytesStore,             \* bytesStoreRef: id -> final bytes
    originalBytesStore,     \* originalBytesStoreRef: id -> editable bytes
    calc,                   \* an angle function's call: arguments and result
    fileBytes,              \* PageEditorModal: the bytes of the file being edited
    modifications,          \* PageEditorModal: React state, the list of edits
    hasTransferredBytes,    \* PageEditorModal: hasTransferredBytesRef.current
    request,                \* the message last posted to the worker, if any
    response,               \* the worker's answer to that message, if it came
    cachedBytes,            \* worker: the bytes kept from the last transfer
    cachedDoc,              \* worker: the document parsed from them, if kept
    render,                 \* a rendering-engine session: caller, position, tasks
    scan,                   \* a signature scan: the form, the fields visited, the result
    inbox,                  \* worker: the messages posted to it and not yet delivered
    handlers,               \* worker: the onmessage calls suspended at an await
    posted,                 \* worker: the answers it has posted, with their requests
    sent,                   \* the number of messages the editor has posted
    outbox,                 \* worker: the ids of the answers posted and not yet delivered
    preview,                \* PageEditorModal: request counter, loading indicator, preview
    bundle                  \* generateSubmission: its position, locals and what it set

vars == <<pc, target, rawBytes, normalized, prepared, fix, result, errorMsg,
          requestId, coverUploadRequestId, coverFile, individualFiles,
          bytesStore, originalBytesStore, calc, fileBytes, modifications,
          hasTransferredBytes, request, response, cachedBytes, cachedDoc,
          render, scan, inbox, handlers, posted, sent, outbox, preview, bundle>>

uploadVars == <<pc, target, rawBytes, normalized, prepared, fix, result, errorMsg,
                requestId, coverUploadRequestId, coverFile, individualFiles,
                bytesStore, originalBytesStore>>
editorVars == <<fileBytes, modifications, hasTransferredBytes, request, response,
                cachedBytes, cachedDoc>>

workerVars == <<inbox, handlers, posted, sent, outbox, preview, bundle>>
sideVars == <<render, scan, workerVars>>

pipelineVars == <<normalized, prepared, fix, result, errorMsg>>
uiVars == <<coverFile, individualFiles, bytesStore, originalBytesStore>>

\* ------------------------------------------------- the worker's arithmetic
\* Annotation coordinates, the scale and the offsets are modelled exactly,
\* as fractions in lowest terms with a positive denominator.
RECURSIVE GCD(_, _)
GCD(a, b) == IF b = 0 THEN a ELSE GCD(b, a % b)

Frac(n, d) ==
    LET g == GCD(Abs(n), Abs(d))
        sign == IF d < 0 THEN -1 ELSE 1
    IN  [n |-> sign * (n \div g), d |-> sign * (d \div g)]

FracOfInt(i) == [n |-> i, d |-> 1]

FracMul(a, b) ==
    LET g1 == GCD(Abs(a.n), b.d)
        g2 == GCD(Abs(b.n), a.d)
    IN  Frac((a.n \div g1) * (b.n \div g2), (a.d \div g2) * (b.d \div g1))

FracDiv(a, b) == FracMul(a, Frac(b.d, b.n))

FracAdd(a, b) ==
    LET l == (a.d \div GCD(a.d, b.d)) * b.d
    IN  Frac(a.n * (l \div a.d) + b.n * (l \div b.d), l)

FracSub(a, b) == FracAdd(a, [n |-> -b.n, d |-> b.d])

FracMin(a, b) == IF a.n * b.d <= b.n * a.d THEN a ELSE b

\* ------------------------------------------- pdf-save.worker: annotations
\* An entry of a PDF array: a PDFNumber, or an object of another type.
PdfNumber(value) == [isNumber |-> TRUE, value |-> value]
NotANumber == [isNumber |-> FALSE, value |-> FracOfInt(0)]

\* Mutant: the horizontal offset is added to both coordinates.
scaleAndTranslateAnnotationArray_SameOffset(array, scale, dx, dy) ==
    [i \in 1..Len(array) |->
        LET x == IF i % 2 = 1 THEN i ELSE i - 1
        IN  IF x + 1 <= Len(array) /\ array[x].isNumber /\ array[x + 1].isNumber
            THEN PdfNumber(FracAdd(FracMul(array[i].value, scale), dx))
            ELSE array[i]]

\* The entries are taken in pairs (x, y) from the start; a pair with an
\* entry that is no number is skipped, and so is a last entry without a
\* partner.
scaleAndTranslateAnnotationArray(array, scale, dx, dy) ==
    [i \in 1..Len(array) |->
        LET x == IF i % 2 = 1 THEN i ELSE i - 1
        IN  IF x + 1 <= Len(array) /\ array[x].isNumber /\ array[x + 1].isNumber
            THEN PdfNumber(FracAdd(FracMul(array[i].value, scale),
                                   IF i = x THEN dx ELSE dy))
            ELSE array[i]]

\* An annotation dictionary: its Rect and its QuadPoints, each an array or
\* absent.
Annotation(rect, quadPoints) == [rect |-> rect, quadPoints |-> quadPoints]

scaleAndTranslateAnnotation(annot, scale, dx, dy) ==
    Annotation(
        IF IsSome(annot.rect)
        THEN Some(scaleAndTranslateAnnotationArray(Get(annot.rect), scale, dx, dy))
        ELSE None,
        IF IsSome(annot.quadPoints)
        THEN Some(scaleAndTranslateAnnotationArray(Get(annot.quadPoints), scale, dx, dy))
        ELSE None)

\* annots: the page's Annots array, or None when the page has none.
scaleAndTranslatePageAnnotations(annots, scale, dx, dy) ==
    IF ~IsSome(annots)
    THEN annots
    ELSE Some([i \in 1..Len(Get(annots)) |->
                  scaleAndTranslateAnnotation(Get(annots)[i], scale, dx, dy)])

\* ---------------------------------------- pdf-save.worker: applyModifications
\* A page in the editor: a page as above, its annotations, and the
\* operators pushed onto its content stream.
EditorPage(id, width, height, rotation, bad, annots) ==
    [id |-> id, width |-> width, height |-> height, rotation |-> rotation,
     angle |-> NullAngle, bad |-> bad, annots |-> annots, content |-> <<>>]

RotateMod(pageIndices, angle) ==
    [type |-> "rotate", pageIndices |-> pageIndices, angle |-> angle]
FitToA4Mod(pageIndices) ==
    [type |-> "fitToA4", pageIndices |-> pageIndices]

\* Mutant: the sum is reduced into [0, 360).
rotatePage_Normalized(page, angle) ==
    IF page.bad = "read"
    THEN page
    ELSE [page EXCEPT !.rotation = normalizeAngle(@ + angle)]

\* Lines 100-106; a page that cannot be read is skipped.
rotatePage(page, angle) ==
    IF page.bad = "read"
    THEN page
    ELSE [page EXCEPT !.rotation = @ + angle]

\* Mutant: the box of a page turned sideways is measured as it is shown.
fitScale_AsShown(page) ==
    IF normalizeAngle(page.rotation) \in {90, 270}
    THEN FracMin(FracDiv(FracOfInt(A4_WIDTH), FracOfInt(page.height)),
                 FracDiv(FracOfInt(A4_HEIGHT), FracOfInt(page.width)))
    ELSE FracMin(FracDiv(FracOfInt(A4_WIDTH), FracOfInt(page.width)),
                 FracDiv(FracOfInt(A4_HEIGHT), FracOfInt(page.height)))

fitScale(page) ==
    FracMin(FracDiv(FracOfInt(A4_WIDTH), FracOfInt(page.width)),
            FracDiv(FracOfInt(A4_HEIGHT), FracOfInt(page.height)))

fitDx(page) ==
    FracDiv(FracSub(FracOfInt(A4_WIDTH),
                    FracMul(FracOfInt(page.width), fitScale(page))),
            FracOfInt(2))

fitDy(page) ==
    FracDiv(FracSub(FracOfInt(A4_HEIGHT),
                    FracMul(FracOfInt(page.height), fitScale(page))),
            FracOfInt(2))

\* Lines 113-132; a page that cannot be read is skipped, and a page whose
\* content stream cannot be rewritten keeps the box set before the throw.
fitPageToA4(page) ==
    IF page.bad = "read"
    THEN page
    ELSE IF page.bad = "mutate"
    THEN [page EXCEPT !.width = A4_WIDTH, !.height = A4_HEIGHT]
    ELSE [page EXCEPT
             !.width = A4_WIDTH,
             !.height = A4_HEIGHT,
             !.content = @ \o <<[op |-> "scale", x |-> fitScale(page),
                                                 y |-> fitScale(page)],
                                [op |-> "translate", x |-> fitDx(page),
                                                     y |-> fitDy(page)]>>,
             !.annots = scaleAndTranslatePageAnnotations(
                            @, fitScale(page), fitDx(page), fitDy(page))]

\* One turn of the loop over the modifications.
\* Mutant: the entry acts on every page, listed or not.
applyModification_OnEveryPage(pages, mod) ==
    [i \in 1..Len(pages) |->
        IF mod.type = "rotate"
        THEN rotatePage(pages[i], mod.angle)
        ELSE IF mod.type = "fitToA4"
        THEN fitPageToA4(pages[i])
        ELSE pages[i]]

\* Mutant: after a targeted page that throws, the rest of the entry's pages
\* are left alone.
applyModification_StopsAtBadPage(pages, mod) ==
    LET indices == {mod.pageIndices[j] : j \in 1..Len(mod.pageIndices)}
        Stopped(i) == \E j \in 1..(i - 1) : (j - 1) \in indices /\ pages[j].bad # "ok"
    IN  [i \in 1..Len(pages) |->
            IF (i - 1) \notin indices \/ Stopped(i)
            THEN pages[i]
            ELSE IF mod.type = "rotate"
            THEN rotatePage(pages[i], mod.angle)
            ELSE IF mod.type = "fitToA4"
            THEN fitPageToA4(pages[i])
            ELSE pages[i]]

applyModification(pages, mod) ==
    LET indices == {mod.pageIndices[j] : j \in 1..Len(mod.pageIndices)}
    IN  [i \in 1..Len(pages) |->
            IF (i - 1) \notin indices
            THEN pages[i]
            ELSE IF mod.type = "rotate"
            THEN rotatePage(pages[i], mod.angle)
            ELSE IF mod.type = "fitToA4"
            THEN fitPageToA4(pages[i])
            ELSE pages[i]]

RECURSIVE applyModificationsFrom(_, _, _)
applyModificationsFrom(pages, mods, k) ==
    IF k > Len(mods)
    THEN pages
    ELSE applyModificationsFrom(applyModification(pages, mods[k]),
                                mods, k + 1)

\* Mutant: every entry acts on the pages as they were at the start, and the
\* last entry's outcome is kept.
applyModifications_OnOriginal(doc, mods) ==
    IF mods = <<>>
    THEN doc
    ELSE [doc EXCEPT !.pages =
             applyModification(@, mods[Len(mods)])]

applyModifications(doc, mods) ==
    [doc EXCEPT !.pages = applyModificationsFrom(@, mods, 1)]

\* Mutant: the last assignment of the three ifs decides the type.
workerIssueOfPage_LastDefectWins(page, index) ==
    IF page.bad = "read"
    THEN <<PageIssue(index, "both", <<"Malformed page object">>)>>
    ELSE LET isPortrait == page.height >= page.width
             isPortraitRotation == JsRem(page.rotation, 180) = 0
             isA4Dimensions == /\ Abs(page.width - A4_WIDTH) <= IssueTolerance
                               /\ Abs(page.height - A4_HEIGHT) <= IssueTolerance
             t1 == IF ~isPortrait THEN "orientation" ELSE "size"
             t2 == IF ~isA4Dimensions THEN "size" ELSE t1
             t3 == IF ~isPortraitRotation THEN "orientation" ELSE t2
         IN  IF ~isPortrait \/ ~isA4Dimensions \/ ~isPortraitRotation
             THEN <<PageIssue(index, t3, <<>>)>>
             ELSE <<>>

\* The worker's copy of the issue detector.
workerIssueOfPage(page, index) ==
    IF page.bad = "read"
    THEN <<PageIssue(index, "both", <<"Malformed page object">>)>>
    ELSE LET isPortrait == page.height >= page.width
             isPortraitRotation == JsRem(page.rotation, 180) = 0
             isA4Dimensions == /\ Abs(page.width - A4_WIDTH) <= IssueTolerance
                               /\ Abs(page.height - A4_HEIGHT) <= IssueTolerance
             t1 == IF ~isPortrait THEN "orientation" ELSE "size"
             t2 == IF ~isA4Dimensions THEN "size" ELSE t1
             t3 == IF ~isPortraitRotation THEN "orientation" ELSE t2
             type == IF (~isPortrait \/ ~isPortraitRotation) /\ ~isA4Dimensions
                     THEN "both"
                     ELSE t3
             parts == (IF ~isPortrait THEN <<"Landscape Page Box">> ELSE <<>>)
                      \o (IF ~isA4Dimensions THEN <<"Non-A4 Size">> ELSE <<>>)
                      \o (IF ~isPortraitRotation
                          THEN <<"Sideways Page Rotation">>
                          ELSE <<>>)
         IN  IF ~isPortrait \/ ~isA4Dimensions \/ ~isPortraitRotation
             THEN <<PageIssue(index, type, parts)>>
             ELSE <<>>

RECURSIVE workerIssuesUpTo(_, _)
workerIssuesUpTo(pages, n) ==
    IF n = 0
    THEN <<>>
    ELSE workerIssuesUpTo(pages, n - 1) \o workerIssueOfPage(pages[n], n - 1)

workerGetIssuesFromDoc(doc) == workerIssuesUpTo(doc.pages, Len(doc.pages))

\* --------------------------------------------- pdf-save.worker: messages
PreviewRequest(bytes, useCachedBytes, mods) ==
    [type |-> "preview", bytes |-> bytes, useCachedBytes |-> useCachedBytes,
     modifications |-> mods, fullDocumentPreview |-> TRUE]

SaveRequest(bytes, useCachedBytes, mods) ==
    [type |-> "save", bytes |-> bytes, useCachedBytes |-> useCachedBytes,
     modifications |-> mods, fullDocumentPreview |-> FALSE]

\* A message with its requestId: Some(n) on a preview, None on a save.
WithRequestId(msg, previewRequestId) ==
    [type |-> msg.type, bytes |-> msg.bytes, useCachedBytes |-> msg.useCachedBytes,
     modifications |-> msg.modifications, fullDocumentPreview |-> msg.fullDocumentPreview,
     requestId |-> previewRequestId]

OkResponse(type, bytes, issues) ==
    [type |-> type, ok |-> TRUE, bytes |-> bytes, issues |-> issues, error |-> ""]

\* Mutant: every failure is reported as a failed preview.
ErrorResponse_AsPreview(type, error) ==
    [type |-> "preview", ok |-> FALSE, bytes |-> NoDoc, issues |-> <<>>, error |-> error]

ErrorResponse(type, error) ==
    [type |-> type, ok |-> FALSE, bytes |-> NoDoc, issues |-> <<>>, error |-> error]

\* handleSave once the normalized bytes are loaded.
handleSave(doc, mods, saveOK) ==
    LET edited == applyModifications(doc, mods)
    IN  IF saveOK
        THEN OkResponse("save", [edited EXCEPT !.tag = "saved"],
                        workerGetIssuesFromDoc(edited))
        ELSE ErrorResponse("save", "save failed")

\* handlePreview once the source document is at hand: the modifications go
\* onto a copy of it, and the editor always asks for the whole document.
handlePreview(sourceDoc, mods, saveOK) ==
    IF saveOK
    THEN OkResponse("preview",
                    [applyModifications(sourceDoc, mods) EXCEPT !.tag = "preview"],
                    <<>>)
    ELSE ErrorResponse("preview", "save failed")

\* ------------------------------------------- the rendering engine (pdf.js)
\* Bytes as the rendering engine sees them: whether they are locked with a
\* password (Secret), whether opening them fails for another reason ("other":
\* an error that is not about passwords; "mentionsPassword": an error that is
\* no PasswordException but has the word in its message), how many pages
\* they have, and which page, if any, throws when it is read (0: none).
Secret == "right"
Passwords == {"right", "wrong"}

PdfJsBytes(locked, openError, numPages, pageThrowsAt) ==
    [locked |-> locked, openError |-> openError, numPages |-> numPages,
     pageThrowsAt |-> pageThrowsAt]

RenderInputs ==
    {PdfJsBytes(locked, openError, numPages, pageThrowsAt) :
        locked \in BOOLEAN, openError \in {"none", "other", "mentionsPassword"},
        numPages \in 1..MaxPages, pageThrowsAt \in 0..MaxPages}

EngineError(name, mentionsPassword) == [name |-> name, mentionsPassword |-> mentionsPassword]
NoError == EngineError("", FALSE)
PasswordRequiredError == EngineError("Error: Password is required to open this PDF.", TRUE)
PageError == EngineError("page", FALSE)

\* What loadingTask.promise settles to: NoError when the document opens.
openOutcome(bytes, password) ==
    IF bytes.openError = "other"
    THEN EngineError("InvalidPDFException", FALSE)
    ELSE IF bytes.openError = "mentionsPassword"
    THEN EngineError("UnknownErrorException", TRUE)
    ELSE IF bytes.locked /\ password # Some(Secret)
    THEN EngineError("PasswordException", TRUE)
    ELSE NoError

\* Mutant: only an error named PasswordException counts.
isPasswordError_ByNameOnly(error) == error.name = "PasswordException"

isPasswordError(error) == error.name = "PasswordException" \/ error.mentionsPassword

\* An entry of the session's record of what happened, in order.
RenderEvent(event, password, error) == [event |-> event, password |-> password, error |-> error]

\* A loading task: the password it was opened with, whether destroy() has
\* been called on it.
LoadingTask(password, destroyed) == [password |-> password, destroyed |-> destroyed]

RenderSession(caller, bytes, at, password, tasks, page, log, error) ==
    [caller |-> caller, bytes |-> bytes, at |-> at, password |-> password,
     tasks |-> tasks, page |-> page, log |-> log, error |-> error]

\* No rendering session is open.
RenderIdle ==
    RenderSession("none", PdfJsBytes(FALSE, "none", 0, 0), "idle", None, <<>>, 0, <<>>, NoError)

destroyLast(tasks) == [tasks EXCEPT ![Len(tasks)].destroyed = TRUE]

\* No signature scan is under way.
\* ------------------------------------------------- interactive forms
\* Field dictionaries are named by their references 1..MaxFields. A field
\* has its FT, may carry a V that is a dictionary, and lists its Kids.
FieldRefs == 1..MaxFields

Field(ft, valueDict, kids) == [ft |-> ft, valueDict |-> valueDict, kids |-> kids]

PlainField == Field("/Tx", FALSE, <<>>)

\* The references of a set, in ascending order.
RECURSIVE RefsFrom(_, _)
RefsFrom(refs, ref) ==
    IF ref > MaxFields
    THEN <<>>
    ELSE (IF ref \in refs THEN <<ref>> ELSE <<>>) \o RefsFrom(refs, ref + 1)

RefLists == {RefsFrom(refs, 1) : refs \in SUBSET FieldRefs}

Fields ==
    {Field(kind[1], kind[2], kids) :
        kind \in {<<"/Sig", FALSE>>, <<"/Tx", TRUE>>, <<"/Tx", FALSE>>}, kids \in RefLists}

\* The catalog's AcroForm: whether it is there, its SigFlags, whether it
\* has a Fields array, that array, and the field dictionaries.
AcroForm(present, sigFlags, hasFields, fields, dicts) ==
    [present |-> present, sigFlags |-> sigFlags, hasFields |-> hasFields,
     fields |-> fields, dicts |-> dicts]

NoFields == [ref \in FieldRefs |-> PlainField]

NoAcroForm == AcroForm(FALSE, 0, FALSE, <<>>, NoFields)

\* The forms whose field dictionaries are named by refs.
AcroFormsOver(refs) ==
    {NoAcroForm, AcroForm(TRUE, 1, TRUE, <<1>>, NoFields), AcroForm(TRUE, 0, FALSE, <<>>, NoFields)}
    \cup {AcroForm(TRUE, 0, TRUE, fields, dicts) :
             fields \in RefLists, dicts \in [refs -> Fields]}

\* A call of hasSignatureData: where it is, the index i of its loop over
\* Fields, the calls of hasSignatureField that have not returned (each with
\* its field and the index k of its loop over Kids), the visited set, the
\* fields whose body ran, in order, and the value returned.
ScanState(form, at, i, stack, visited, entered, out) ==
    [form |-> form, at |-> at, i |-> i, stack |-> stack, visited |-> visited,
     entered |-> entered, out |-> out]

ScanIdle == ScanState(NoAcroForm, "idle", 1, <<>>, {}, <<>>, FALSE)

\* The worker has been sent nothing.
\* generateSubmission before it is called: at, its position; i, the index
\* of the next file; currentPageNumber, newTabInfo and merged (the pages
\* of mergedPdf), its locals; tabInfo and generatedPdf, the React state.
BundleIdle ==
    [at |-> "idle", i |-> 0, currentPageNumber |-> 0, newTabInfo |-> <<>>,
     merged |-> <<>>, tabInfo |-> <<>>, generatedPdf |-> None]

\* previewRequestIdRef.current, isPreviewLoading and afterPreviewBytes.
Preview(previewRequestId, isPreviewLoading, afterPreviewBytes) ==
    [requestId |-> previewRequestId, isPreviewLoading |-> isPreviewLoading,
     afterPreviewBytes |-> afterPreviewBytes]

WorkerIdle ==
    /\ inbox = <<>>
    /\ handlers = {}
    /\ posted = {}
    /\ sent = 0
    /\ outbox = <<>>
    /\ preview = Preview(0, TRUE, None)
    /\ bundle = BundleIdle

SideIdle ==
    /\ render = RenderIdle
    /\ scan = ScanIdle
    /\ WorkerIdle

\* No angle function is being evaluated.
NoCall == [fn |-> "none", currentPageRotation |-> 0, angle |-> 0, out |-> 0]

\* No file is open in the editor.
EditorClosed ==
    /\ fileBytes = NoDoc
    /\ modifications = <<>>
    /\ hasTransferredBytes = FALSE
    /\ request = None
    /\ response = None
    /\ cachedBytes = None
    /\ cachedDoc = None

Init ==
    /\ calc = NoCall
    /\ EditorClosed
    /\ SideIdle
    /\ pc = "idle"
    /\ target = "none"
    /\ rawBytes \in RawDocs
    /\ normalized = None
    /\ prepared = None
    /\ fix = FixIdle
    /\ result = None
    /\ errorMsg = ""
    /\ requestId = 0
    /\ coverUploadRequestId = 0
    /\ coverFile = None
    /\ individualFiles = <<>>
    /\ bytesStore = <<>>
    /\ originalBytesStore = <<>>

\* Mutant: the handler never finds itself superseded.
Superseded_Never == FALSE

\* requestId !== coverUploadRequestIdRef.current, the cover handler's check
\* after each await.
Superseded == target = "cover" /\ requestId # coverUploadRequestId

\* Updates the followed file's entry in the React state, as the functional
\* setCoverFile / setIndividualFiles updates do.
UpdateFile(patch) ==
    IF target = "cover"
    THEN /\ coverFile' = PatchCover(coverFile, FileId, patch)
         /\ UNCHANGED individualFiles
    ELSE /\ individualFiles' = PatchFiles(individualFiles, FileId, patch)
         /\ UNCHANGED coverFile

\* processCoverFile, up to its first await.
ProcessCoverFile ==
    /\ UNCHANGED <<calc, editorVars, sideVars>>
    /\ pc = "idle"
    /\ pc' = "readFile"
    /\ target' = "cover"
    /\ coverUploadRequestId' = coverUploadRequestId + 1
    /\ requestId' = coverUploadRequestId + 1
    /\ bytesStore' = IF IsSome(coverFile)
                     THEN StoreDelete(bytesStore, Get(coverFile).id)
                     ELSE bytesStore
    /\ originalBytesStore' = IF IsSome(coverFile)
                             THEN StoreDelete(originalBytesStore, Get(coverFile).id)
                             ELSE originalBytesStore
    /\ coverFile' = Some(Placeholder(FileId))
    /\ UNCHANGED <<rawBytes, pipelineVars, individualFiles>>

\* processIndividualFiles, up to its first await.
ProcessIndividualFiles ==
    /\ UNCHANGED <<calc, editorVars, sideVars>>
    /\ pc = "idle"
    /\ pc' = "readFile"
    /\ target' = "individual"
    /\ individualFiles' = Append(individualFiles, Placeholder(FileId))
    /\ UNCHANGED <<rawBytes, pipelineVars, requestId, coverUploadRequestId,
                   coverFile, bytesStore, originalBytesStore>>

\* Another cover upload starts while the followed cover upload is under way
\* or done: the synchronous head of a later processCoverFile call.  (A cover
\* upload beside an individual upload touches nothing the latter reads.)
LaterCoverUpload ==
    /\ UNCHANGED <<calc, editorVars, sideVars>>
    /\ target = "cover"
    /\ coverUploadRequestId < MaxCoverRequests
    /\ coverUploadRequestId' = coverUploadRequestId + 1
    /\ bytesStore' = IF IsSome(coverFile)
                     THEN StoreDelete(bytesStore, Get(coverFile).id)
                     ELSE bytesStore
    /\ originalBytesStore' = IF IsSome(coverFile)
                             THEN StoreDelete(originalBytesStore, Get(coverFile).id)
                             ELSE originalBytesStore
    /\ coverFile' = Some(Placeholder(LaterCoverId(coverUploadRequestId + 1)))
    /\ UNCHANGED <<pc, target, rawBytes, pipelineVars, requestId, individualFiles>>

\* What a later cover upload stores when it comes to its end.
LaterCoverBytes(requestNo) ==
    MkDoc("later", TRUE, FALSE, FALSE, FALSE, FALSE, <<>>)

LaterCoverFile(requestNo) ==
    PdfFile(LaterCoverId(requestNo), 1, "done", FALSE, <<>>, FALSE, NoSummary, <<>>)

\* The rest of the last later processCoverFile call, when it is still the
\* latest: it stores its bytes and sets the cover, or it catches an error
\* and sets the cover to null.  (A later call that is no longer the latest
\* returns at its next check and changes nothing.)
LaterCoverSettles ==
    /\ UNCHANGED <<calc, editorVars, sideVars>>
    /\ target = "cover"
    /\ coverUploadRequestId > requestId
    /\ coverFile = Some(Placeholder(LaterCoverId(coverUploadRequestId)))
    /\ \E ok \in BOOLEAN :
          IF ok
          THEN /\ bytesStore' = StorePut(bytesStore, LaterCoverId(coverUploadRequestId),
                                         LaterCoverBytes(coverUploadRequestId))
               /\ originalBytesStore' =
                      StorePut(originalBytesStore, LaterCoverId(coverUploadRequestId),
                               LaterCoverBytes(coverUploadRequestId))
               /\ coverFile' = Some(LaterCoverFile(coverUploadRequestId))
          ELSE /\ coverFile' = None
               /\ UNCHANGED <<bytesStore, originalBytesStore>>
    /\ UNCHANGED <<pc, target, rawBytes, pipelineVars, requestId, coverUploadRequestId,
                   individualFiles>>

\* await file.arrayBuffer(), then the stage moves to "scanning".
ReadFile ==
    /\ UNCHANGED <<calc, editorVars, sideVars>>
    /\ pc = "readFile"
    /\ IF Superseded
       THEN /\ pc' = "returned"
            /\ UNCHANGED <<coverFile, individualFiles>>
       ELSE /\ pc' = "normalize"
            /\ UpdateFile([processingStage |-> "scanning"])
    /\ UNCHANGED <<target, rawBytes, pipelineVars, requestId, coverUploadRequestId,
                   bytesStore, originalBytesStore>>

\* prepareEditablePdfBytes: await normalizePdfForEditing(pdfBytes).
NormalizePdf ==
    /\ UNCHANGED <<calc, editorVars, sideVars>>
    /\ pc = "normalize"
    /\ \E copyOK \in BOOLEAN, stripOK \in BOOLEAN :
          normalized' = Some(normalizePdfForEditing(rawBytes, copyOK, stripOK))
    /\ pc' = "probe"
    /\ UNCHANGED <<target, rawBytes, prepared, fix, result, errorMsg, requestId,
                   coverUploadRequestId, uiVars>>

\* prepareEditablePdfBytes: the readability probe and the branch on it.
ProbeReadable ==
    /\ UNCHANGED <<calc, editorVars, sideVars>>
    /\ pc = "probe"
    /\ IF prepareUsesNormalized(Get(normalized))
       THEN /\ prepared' = Some([bytes |-> Get(normalized).bytes, imageOnly |-> FALSE])
            /\ pc' = "prepared"
       ELSE /\ prepared' = prepared
            /\ pc' = "prepRaster"
    /\ UNCHANGED <<target, rawBytes, normalized, fix, result, errorMsg, requestId,
                   coverUploadRequestId, uiVars>>

\* prepareEditablePdfBytes: await rasterizePdfToEditableA4(pdfBytes); the
\* rendering engine may fail to open or render the file.
PrepareRasterize ==
    /\ UNCHANGED <<calc, editorVars, sideVars>>
    /\ pc = "prepRaster"
    /\ \E rasterOK \in BOOLEAN :
          IF rasterOK
          THEN /\ prepared' = Some([bytes |-> rasterizePdfToEditableA4(rawBytes),
                                    imageOnly |-> TRUE])
               /\ pc' = "prepared"
               /\ UNCHANGED errorMsg
          ELSE /\ prepared' = prepared
               /\ pc' = "catch"
               /\ errorMsg' = "rendering failed"
    /\ UNCHANGED <<target, rawBytes, normalized, fix, result, requestId,
                   coverUploadRequestId, uiVars>>

\* Back in the handler: the stage moves to "autofixing".
AfterPrepare ==
    /\ UNCHANGED <<calc, editorVars, sideVars>>
    /\ pc = "prepared"
    /\ IF Superseded
       THEN /\ pc' = "returned"
            /\ UNCHANGED <<coverFile, individualFiles>>
       ELSE /\ pc' = "autofix1"
            /\ UpdateFile([processingStage |-> "autofixing",
                           imageOnly |-> Get(prepared).imageOnly])
    /\ UNCHANGED <<target, rawBytes, pipelineVars, requestId, coverUploadRequestId,
                   bytesStore, originalBytesStore>>


\* autoFixPdf, lines 1657-1733: load, detect text angles (best effort), fix
\* every page, serialize.  A load or save that throws goes to the fallback.
AutoFixFirstPass ==
    /\ UNCHANGED <<calc, editorVars, sideVars>>
    /\ pc = "autofix1"
    /\ LET pdfBytes == Get(prepared).bytes
           pages == pdfBytes.pages
       IN  IF ~pdfBytes.loadOK
           THEN /\ pc' = "fallback"
                /\ UNCHANGED fix
           ELSE \E detectOK \in BOOLEAN, saveOK \in BOOLEAN :
                  LET textAngles ==
                          IF detectOK
                          THEN detectDominantTextAngles(pdfBytes)
                          ELSE [i \in 1..Len(pages) |-> NullAngle]
                      fixedPages ==
                          [i \in 1..Len(pages) |->
                              fixPageFirstPass(pages[i], textAngles[i])]
                      firstPassBytes ==
                          [pdfBytes EXCEPT !.tag = "pass1", !.pages = fixedPages]
                      threw == \E i \in 1..Len(pages) : pageThrows(pages[i])
                      started ==
                          [malformed |-> threw,
                           pageThrew |-> threw,
                           firstDetectionThrew |-> ~detectOK,
                           secondDetectionThrew |-> FALSE,
                           saveThrew |-> ~saveOK,
                           textAngles |-> textAngles,
                           fixes |-> firstPassFixes(pages, textAngles),
                           rotatedPages |-> firstPassRotatedPages(pages, textAngles),
                           pageCount |-> Len(pages),
                           firstPassBytes |-> NoDoc,
                           finalBytes |-> NoDoc]
                  IN  IF saveOK
                      THEN /\ pc' = "autofix2"
                           /\ fix' = [started EXCEPT !.firstPassBytes = firstPassBytes,
                                                     !.finalBytes = firstPassBytes]
                      ELSE /\ pc' = "fallback"
                           /\ fix' = started
    /\ UNCHANGED <<target, rawBytes, normalized, prepared, result, errorMsg,
                   requestId, coverUploadRequestId, uiVars>>

\* autoFixPdf, lines 1735-1775: the upside-down correction pass.  Anything
\* thrown in it (detection, a page read, the second save) sets the malformed
\* flag and leaves the first-pass bytes as the final bytes.
AutoFixCorrectionPass ==
    /\ UNCHANGED <<calc, editorVars, sideVars>>
    /\ pc = "autofix2"
    /\ pc' = "autofix3"
    /\ \E detectOK \in BOOLEAN, saveOK \in BOOLEAN :
          IF ~detectOK
          THEN fix' = [fix EXCEPT !.malformed = TRUE,
                                  !.secondDetectionThrew = TRUE]
          ELSE LET firstPassDoc == fix.firstPassBytes
                   finalAngles == detectDominantTextAngles(firstPassDoc)
                   upsideDown == upsideDownPages(firstPassDoc, finalAngles)
                   threw == \E i \in 1..Min(Len(finalAngles), Len(firstPassDoc.pages)) :
                               firstPassDoc.pages[i].bad = "read"
                   correctedPages ==
                       [i \in 1..Len(firstPassDoc.pages) |->
                           IF i \in upsideDown
                           THEN correctPage(firstPassDoc.pages[i])
                           ELSE firstPassDoc.pages[i]]
                   marked ==
                       [fix EXCEPT !.malformed = @ \/ threw,
                                   !.pageThrew = @ \/ threw,
                                   !.fixes = markRotation(@, upsideDown),
                                   !.rotatedPages = @ + Cardinality(upsideDown)]
               IN  IF upsideDown = {}
                   THEN fix' = [fix EXCEPT !.malformed = @ \/ threw,
                                           !.pageThrew = @ \/ threw]
                   ELSE IF saveOK
                   THEN fix' = [marked EXCEPT
                                   !.finalBytes = [firstPassDoc EXCEPT
                                                      !.tag = "pass2",
                                                      !.pages = correctedPages]]
                   ELSE fix' = [marked EXCEPT !.malformed = TRUE,
                                              !.saveThrew = TRUE]
    /\ UNCHANGED <<target, rawBytes, normalized, prepared, result, errorMsg,
                   requestId, coverUploadRequestId, uiVars>>

\* autoFixPdf, lines 1777-1811: residual issues, the fail-fast check, the
\* structural result.
AutoFixFinish ==
    /\ UNCHANGED <<calc, editorVars, sideVars>>
    /\ pc = "autofix3"
    /\ IF structuralFails(fix)
       THEN /\ pc' = "fallback"
            /\ UNCHANGED result
       ELSE /\ pc' = "fixed"
            /\ result' = Some(structuralResult(fix))
    /\ UNCHANGED <<target, rawBytes, normalized, prepared, fix, errorMsg,
                   requestId, coverUploadRequestId, uiVars>>

\* autoFixPdf, lines 1812-1822: the rasterization fallback on the bytes
\* autoFixPdf was given, or the terminal error.
AutoFixFallback ==
    /\ UNCHANGED <<calc, editorVars, sideVars>>
    /\ pc = "fallback"
    /\ \E rasterOK \in BOOLEAN :
          IF rasterOK
          THEN /\ result' = Some(buildRasterizedFallbackResult(Get(prepared).bytes))
               /\ pc' = "fixed"
               /\ UNCHANGED errorMsg
          ELSE /\ UNCHANGED result
               /\ pc' = "catch"
               /\ errorMsg' = TerminalError
    /\ UNCHANGED <<target, rawBytes, normalized, prepared, fix, requestId,
                   coverUploadRequestId, uiVars>>

\* The handler after autoFixPdf returned: store the bytes, publish the file.
StoreResult ==
    /\ UNCHANGED <<calc, editorVars, sideVars>>
    /\ pc = "fixed"
    /\ IF Superseded
       THEN /\ pc' = "returned"
            /\ UNCHANGED uiVars
       ELSE /\ pc' = "stored"
            /\ bytesStore' = StorePut(bytesStore, FileId, Get(result).bytes)
            /\ originalBytesStore' =
                   StorePut(originalBytesStore, FileId, Get(prepared).bytes)
            /\ LET done == ProcessedFile(FileId, Get(result), Get(prepared).imageOnly)
               IN  IF target = "cover"
                   THEN /\ coverFile' = Some(done)
                        /\ UNCHANGED individualFiles
                   ELSE /\ individualFiles' = PatchFiles(individualFiles, FileId, done)
                        /\ UNCHANGED coverFile
    /\ UNCHANGED <<target, rawBytes, pipelineVars, requestId, coverUploadRequestId>>

\* The handler's catch block.
HandlerCatch ==
    /\ UNCHANGED <<calc, editorVars, sideVars>>
    /\ pc = "catch"
    /\ IF Superseded
       THEN /\ pc' = "returned"
            /\ UNCHANGED uiVars
       ELSE /\ pc' = "failed"
            /\ IF target = "cover"
               THEN /\ coverFile' = None
                    /\ UNCHANGED <<individualFiles, bytesStore, originalBytesStore>>
               ELSE /\ bytesStore' = StoreDelete(bytesStore, FileId)
                    /\ originalBytesStore' = StoreDelete(originalBytesStore, FileId)
                    /\ individualFiles' = RemoveFile(individualFiles, FileId)
                    /\ UNCHANGED coverFile
    /\ UNCHANGED <<target, rawBytes, pipelineVars, requestId, coverUploadRequestId>>

Next ==
    \/ ProcessCoverFile
    \/ ProcessIndividualFiles
    \/ LaterCoverUpload
    \/ LaterCoverSettles
    \/ ReadFile
    \/ NormalizePdf
    \/ ProbeReadable
    \/ PrepareRasterize
    \/ AfterPrepare
    \/ AutoFixFirstPass
    \/ AutoFixCorrectionPass
    \/ AutoFixFinish
    \/ AutoFixFallback
    \/ StoreResult
    \/ HandlerCatch

Spec == Init /\ [][Next]_vars

\* No upload is under way and nothing has been uploaded.
UploadIdle ==
    /\ pc = "idle"
    /\ target = "none"
    /\ rawBytes = NoDoc
    /\ normalized = None
    /\ prepared = None
    /\ fix = FixIdle
    /\ result = None
    /\ errorMsg = ""
    /\ requestId = 0
    /\ coverUploadRequestId = 0
    /\ coverFile = None
    /\ individualFiles = <<>>
    /\ bytesStore = <<>>
    /\ originalBytesStore = <<>>

\* ------------------------------------------------ the angle functions alone
\* The arguments: every whole degree of the circle as a text angle, or no
\* text angle; every multiple of 15 degrees as the page's rotation.
Degrees == 0..359
CurrentRotations == {15 * k : k \in 0..23}

AngleInit ==
    /\ UploadIdle
    /\ EditorClosed
    /\ SideIdle
    /\ calc \in {[fn |-> "none", currentPageRotation |-> c, angle |-> a, out |-> 0] :
                    c \in CurrentRotations, a \in Degrees \cup {NullAngle}}

CallSnapToRightAngle ==
    /\ calc.fn = "none"
    /\ calc.angle # NullAngle
    /\ calc' = [calc EXCEPT !.fn = "snapToRightAngle",
                            !.out = snapToRightAngle(calc.angle)]
    /\ UNCHANGED <<uploadVars, editorVars, sideVars>>

CallChooseFinalPageRotationForPortrait ==
    /\ calc.fn = "none"
    /\ calc' = [calc EXCEPT
                   !.fn = "chooseFinalPageRotationForPortrait",
                   !.out = chooseFinalPageRotationForPortrait(
                               calc.currentPageRotation, calc.angle)]
    /\ UNCHANGED <<uploadVars, editorVars, sideVars>>

AngleNext ==
    \/ CallSnapToRightAngle
    \/ CallChooseFinalPageRotationForPortrait

AngleSpec == AngleInit /\ [][AngleNext]_vars

\* --------------------------------------- the page editor and its worker
Num(i) == PdfNumber(FracOfInt(i))

\* Annotations of the edited files: a link with a Rect alone, a highlight
\* with a Rect and QuadPoints, and one whose Rect has an entry that is no
\* number and an entry without a partner.
LinkAnnotation ==
    Annotation(Some(<<Num(1000), Num(2000), Num(3000), Num(4000)>>), None)
HighlightAnnotation ==
    Annotation(Some(<<Num(7200), Num(7200), Num(20000), Num(9000)>>),
               Some(<<Num(7200), Num(9000), Num(20000), Num(9000),
                      Num(7200), Num(7200), Num(20000), Num(7200)>>))
OddAnnotation ==
    Annotation(Some(<<Num(1000), NotANumber, Num(3000), Num(4000), Num(5000)>>),
               None)

\* Pages of the edited files: exact A4 (upright, and at 270), a landscape
\* box of twice A4, a small portrait box, a box within 5pt of A4 turned
\* sideways, and one page of each malformed sort.
LandscapeShape ==
    <<2 * A4_HEIGHT, 2 * A4_WIDTH, 90, "ok", Some(<<HighlightAnnotation, OddAnnotation>>)>>
UnreadableShape == <<2 * A4_HEIGHT, 2 * A4_WIDTH, 90, "read", None>>
ImmutableShape == <<29764, 40000, 0, "mutate", Some(<<LinkAnnotation>>)>>

EditorShapes ==
    {<<A4_WIDTH, A4_HEIGHT, 0, "ok", None>>,
     <<A4_WIDTH, A4_HEIGHT, 270, "ok", Some(<<LinkAnnotation>>)>>,
     LandscapeShape,
     <<29764, 40000, 0, "ok", Some(<<LinkAnnotation>>)>>,
     <<59900, 84000, 90, "ok", Some(<<HighlightAnnotation>>)>>,
     UnreadableShape,
     ImmutableShape}

EditorLeadShapes == {LandscapeShape, UnreadableShape, ImmutableShape}
EditorTailShape == <<29764, 40000, 180, "ok", Some(<<LinkAnnotation>>)>>

EditorPagesOf(shapeSeq) ==
    [i \in 1..Len(shapeSeq) |->
        EditorPage(i, shapeSeq[i][1], shapeSeq[i][2], shapeSeq[i][3],
                   shapeSeq[i][4], shapeSeq[i][5])]

EditorDoc(shapeSeq) ==
    MkDoc("stored", TRUE, FALSE, FALSE, FALSE, FALSE, EditorPagesOf(shapeSeq))

\* The files the editor is opened on: of one page and of two.
EditorDocs ==
    {EditorDoc(<<shape>>) : shape \in EditorShapes}
    \cup {EditorDoc(<<lead, EditorTailShape>>) : lead \in EditorLeadShapes}

\* The editor is mounted on a file, with a fresh worker.
EditInit ==
    /\ UploadIdle
    /\ calc = NoCall
    /\ SideIdle
    /\ fileBytes \in EditorDocs
    /\ modifications = <<>>
    /\ hasTransferredBytes = FALSE
    /\ request = None
    /\ response = None
    /\ cachedBytes = None
    /\ cachedDoc = None

Saved ==
    \/ IsSome(response) /\ Get(response).type = "save" /\ Get(response).ok
    \/ \E answer \in posted : answer.response.type = "save" /\ answer.response.ok
AwaitingWorker == IsSome(request) /\ response = None

\* applyToAll ? availablePageIndices : [selectedPageIndex]
PageIndexChoices ==
    {[i \in 1..Len(fileBytes.pages) |-> i - 1]}
    \cup {<<i - 1>> : i \in 1..Len(fileBytes.pages)}

HandleRotate ==
    /\ ~Saved
    /\ sent < MaxMessages
    /\ Len(modifications) < MaxModifications
    /\ \E angle \in {-90, 90}, pageIndices \in PageIndexChoices :
          modifications' = Append(modifications, RotateMod(pageIndices, angle))
    /\ preview' = [preview EXCEPT !.isPreviewLoading = TRUE]
    /\ UNCHANGED <<uploadVars, calc, render, scan, bundle, inbox, handlers, posted, sent,
                   outbox,
                   fileBytes, hasTransferredBytes, request, response, cachedBytes,
                   cachedDoc>>

HandleFitToA4 ==
    /\ ~Saved
    /\ sent < MaxMessages
    /\ Len(modifications) < MaxModifications
    /\ \E pageIndices \in PageIndexChoices :
          modifications' = Append(modifications, FitToA4Mod(pageIndices))
    /\ preview' = [preview EXCEPT !.isPreviewLoading = TRUE]
    /\ UNCHANGED <<uploadVars, calc, render, scan, bundle, inbox, handlers, posted, sent,
                   outbox,
                   fileBytes, hasTransferredBytes, request, response, cachedBytes,
                   cachedDoc>>

\* requestPreview, when the debounce timer fires.
RequestPreview ==
    /\ ~Saved
    /\ ~AwaitingWorker
    /\ request' = Some(PreviewRequest(
                          IF hasTransferredBytes THEN None ELSE Some(fileBytes),
                          hasTransferredBytes, modifications))
    /\ hasTransferredBytes' = TRUE
    /\ response' = None
    /\ UNCHANGED <<uploadVars, calc, sideVars, fileBytes, modifications, cachedBytes, cachedDoc>>

\* The editor's handleSave, up to posting the message.
RequestSave ==
    /\ ~Saved
    /\ ~AwaitingWorker
    /\ request' = Some(SaveRequest(
                          IF hasTransferredBytes THEN None ELSE Some(fileBytes),
                          hasTransferredBytes, modifications))
    /\ response' = None
    /\ UNCHANGED <<uploadVars, calc, sideVars, fileBytes, modifications, hasTransferredBytes,
                   cachedBytes, cachedDoc>>

\* self.onmessage, with getOrParseDoc, handlePreview and handleSave.
WorkerOnMessage ==
    /\ AwaitingWorker
    /\ LET msg == Get(request)
           arrived == IsSome(msg.bytes)
           keptBytes == IF arrived THEN msg.bytes ELSE cachedBytes
           keptDoc == IF arrived THEN None ELSE cachedDoc
           bytes == IF arrived
                    THEN msg.bytes
                    ELSE IF msg.useCachedBytes /\ IsSome(cachedBytes)
                    THEN cachedBytes
                    ELSE None
       IN  IF ~IsSome(bytes)
           THEN /\ response' = Some(ErrorResponse(msg.type, "No bytes available"))
                /\ cachedBytes' = keptBytes
                /\ cachedDoc' = keptDoc
           ELSE \E copyOK \in BOOLEAN, stripOK \in BOOLEAN, saveOK \in BOOLEAN :
                  LET editableBytes ==
                          normalizePdfForEditing(Get(bytes), copyOK, stripOK).bytes
                  IN  IF msg.type = "preview"
                      THEN IF IsSome(keptDoc) /\ keptBytes = bytes
                           THEN /\ response' = Some(handlePreview(
                                        Get(keptDoc), msg.modifications, saveOK))
                                /\ cachedBytes' = keptBytes
                                /\ cachedDoc' = keptDoc
                           ELSE IF ~editableBytes.loadOK
                           THEN /\ response' = Some(ErrorResponse(
                                        "preview", "load failed"))
                                /\ cachedBytes' = keptBytes
                                /\ cachedDoc' = keptDoc
                           ELSE /\ response' = Some(handlePreview(
                                        editableBytes, msg.modifications, saveOK))
                                /\ cachedBytes' = Some(editableBytes)
                                /\ cachedDoc' = Some(editableBytes)
                      ELSE /\ cachedBytes' = None
                           /\ cachedDoc' = None
                           /\ response' =
                                 IF ~editableBytes.loadOK
                                 THEN Some(ErrorResponse("save", "load failed"))
                                 ELSE Some(handleSave(
                                          editableBytes, msg.modifications, saveOK))
    /\ UNCHANGED <<uploadVars, calc, sideVars, fileBytes, modifications, hasTransferredBytes,
                   request>>

EditNext ==
    \/ HandleRotate
    \/ HandleFitToA4
    \/ RequestPreview
    \/ RequestSave
    \/ WorkerOnMessage

EditSpec == EditInit /\ [][EditNext]_vars


\* ================================================================ claims
\* ------------------------------------------- a rendering session, alone
\* detectDominantTextAngles or rasterizePdfToEditableA4 is called on bytes
\* of any of the sorts above.
RenderInit ==
    /\ UploadIdle
    /\ EditorClosed
    /\ calc = NoCall
    /\ scan = ScanIdle
    /\ WorkerIdle
    /\ render \in {RenderSession(caller, bytes, "open", None, <<>>, 1, <<>>, NoError) :
                      caller \in {"detect", "rasterize"}, bytes \in RenderInputs}

\* detectDominantTextAngles, lines 284-286: getDocument and the await of its
\* promise, before the try block.
DetectOpen ==
    /\ render.caller = "detect"
    /\ render.at = "open"
    /\ LET error == openOutcome(render.bytes, None)
           tasks == Append(render.tasks, LoadingTask(None, FALSE))
           opened == Append(render.log, RenderEvent("open", None, NoError))
       IN  IF error = NoError
           THEN render' = [render EXCEPT !.at = "pages", !.tasks = tasks, !.log = opened]
           ELSE render' = [render EXCEPT
                              !.at = "thrown",
                              !.tasks = tasks,
                              !.error = error,
                              !.log = opened \o <<RenderEvent("rejected", None, error),
                                                  RenderEvent("throw", None, error)>>]
    /\ UNCHANGED <<uploadVars, calc, editorVars, scan, workerVars>>

\* loadPdfJsWithPasswordPrompt, one turn of the loop up to the prompt: open
\* with the password at hand; on a rejection destroy the task, rethrow what
\* is no password error, otherwise show the prompt.
RasterOpen ==
    /\ render.caller = "rasterize"
    /\ render.at = "open"
    /\ LET error == openOutcome(render.bytes, render.password)
           opened == Append(render.log, RenderEvent("open", render.password, NoError))
           rejected == Append(opened, RenderEvent("rejected", render.password, error))
       IN  IF error = NoError
           THEN render' = [render EXCEPT
                              !.at = "pages",
                              !.tasks = Append(@, LoadingTask(render.password, FALSE)),
                              !.log = opened]
           ELSE IF ~isPasswordError(error)
           THEN render' = [render EXCEPT
                              !.at = "thrown",
                              !.tasks = Append(@, LoadingTask(render.password, TRUE)),
                              !.error = error,
                              !.log = Append(rejected, RenderEvent("throw", None, error))]
           ELSE render' = [render EXCEPT
                              !.at = "prompt",
                              !.tasks = Append(@, LoadingTask(render.password, TRUE)),
                              !.log = Append(rejected, RenderEvent("prompt", None, NoError))]
    /\ UNCHANGED <<uploadVars, calc, editorVars, scan, workerVars>>

\* window.prompt returns: null when the user cancels, the text otherwise.
PromptAnswered ==
    /\ render.at = "prompt"
    /\ Len(render.tasks) < MaxPasswordTries + 1
    /\ \E answer \in {None} \cup {Some(p) : p \in Passwords} :
          IF answer = None
          THEN render' = [render EXCEPT
                             !.at = "thrown",
                             !.error = PasswordRequiredError,
                             !.log = @ \o <<RenderEvent("answer", None, NoError),
                                            RenderEvent("throw", None, PasswordRequiredError)>>]
          ELSE render' = [render EXCEPT
                             !.at = "open",
                             !.password = answer,
                             !.log = Append(@, RenderEvent("answer", answer, NoError))]
    /\ UNCHANGED <<uploadVars, calc, editorVars, scan, workerVars>>

\* One turn of the page loop of either caller, inside try ... finally: the
\* task is destroyed when the loop ends and when a page throws.
RenderPage ==
    /\ render.at = "pages"
    /\ IF render.page > render.bytes.numPages
       THEN render' = [render EXCEPT !.at = "returned", !.tasks = destroyLast(@)]
       ELSE IF render.page = render.bytes.pageThrowsAt
       THEN render' = [render EXCEPT
                          !.at = "thrown",
                          !.tasks = destroyLast(@),
                          !.error = PageError,
                          !.log = Append(@, RenderEvent("throw", None, PageError))]
       ELSE render' = [render EXCEPT !.page = @ + 1]
    /\ UNCHANGED <<uploadVars, calc, editorVars, scan, workerVars>>

RenderNext ==
    \/ DetectOpen
    \/ RasterOpen
    \/ PromptAnswered
    \/ RenderPage

RenderSpec == RenderInit /\ [][RenderNext]_vars

\* ------------------------------- the worker with its handlers interleaved
\* The files edited here: one without protection, and one still encrypted
\* (its remediation failed at upload), which the worker normalizes again.
WorkerDocs ==
    {EditorDoc(<<<<29764, 40000, 0, "ok", Some(<<LinkAnnotation>>)>>>>),
     MkDoc("stored", TRUE, TRUE, FALSE, FALSE, FALSE,
           EditorPagesOf(<<<<A4_WIDTH, A4_HEIGHT, 270, "ok", Some(<<LinkAnnotation>>)>>>>))}

WorkerInit ==
    /\ UploadIdle
    /\ calc = NoCall
    /\ render = RenderIdle
    /\ scan = ScanIdle
    /\ WorkerIdle
    /\ fileBytes \in WorkerDocs
    /\ modifications = <<>>
    /\ hasTransferredBytes = FALSE
    /\ request = None
    /\ response = None
    /\ cachedBytes = None
    /\ cachedDoc = None

Cache(bytes, doc) == [bytes |-> bytes, doc |-> doc]

\* self.onmessage, lines 260-266: bytes that arrive are kept and the parsed
\* document is dropped.
cacheOnArrival(msg, cache) ==
    IF IsSome(msg.bytes) THEN Cache(msg.bytes, None) ELSE cache

\* The bytes the handler works on, None when there are none.
bytesOnArrival(msg, cache) ==
    IF IsSome(msg.bytes)
    THEN msg.bytes
    ELSE IF msg.useCachedBytes /\ IsSome(cache.bytes)
    THEN cache.bytes
    ELSE None

\* Mutant: the parsed document is cached beside the bytes that were there.
cacheOnParse_DocOnly(cache, editableBytes) == Cache(cache.bytes, Some(editableBytes))

\* getOrParseDoc, lines 204-205: the document parsed from the editable
\* bytes and those bytes are cached together.
cacheOnParse(cache, editableBytes) == Cache(Some(editableBytes), Some(editableBytes))

\* Mutant: the modifications are applied to the source document itself.
sourceAfterPreview_InPlace(sourceDoc, mods) == applyModifications(sourceDoc, mods)

\* handlePreview, lines 217-219: the source document after the preview was
\* made; the modifications went onto a copy loaded from its serialization.
sourceAfterPreview(sourceDoc, mods) == sourceDoc

Handler(id, msg, bytes, at, sourceDoc, hit) ==
    [id |-> id, msg |-> msg, bytes |-> bytes, at |-> at, sourceDoc |-> sourceDoc, hit |-> hit]

Answer(handler, answer) == [handler |-> handler, response |-> answer]

\* The previews posted so far, wherever they are now.
PostedPreviews ==
    {inbox[i] : i \in 1..Len(inbox)}
    \cup {[id |-> h.id, msg |-> h.msg] : h \in handlers}
    \cup {[id |-> answer.handler.id, msg |-> answer.handler.msg] : answer \in posted}

\* The debounce timer is set at mount and whenever the modifications
\* change (App.tsx lines 827-841): a preview is due when none was posted
\* yet or the modifications are not those of the last one posted.
previewDue ==
    \A p \in PostedPreviews :
       (/\ p.msg.type = "preview"
        /\ \A q \in PostedPreviews : q.msg.type = "preview" => q.id <= p.id)
          => p.msg.modifications # modifications

\* requestPreview, when the debounce timer fires, posting to the worker
\* whatever it is doing.
PostPreview ==
    /\ ~Saved
    /\ previewDue
    /\ sent < MaxMessages
    /\ inbox' = Append(inbox, [id |-> sent + 1,
                               msg |-> WithRequestId(
                                   PreviewRequest(
                                       IF hasTransferredBytes THEN None ELSE Some(fileBytes),
                                       hasTransferredBytes, modifications),
                                   Some(preview.requestId + 1))])
    /\ sent' = sent + 1
    /\ hasTransferredBytes' = TRUE
    /\ preview' = [preview EXCEPT !.requestId = @ + 1]
    /\ UNCHANGED <<uploadVars, calc, render, scan, bundle, fileBytes, modifications, request,
                   response, cachedBytes, cachedDoc, handlers, posted, outbox>>

\* isSaving: a save was posted and its answer has not come (the Save button
\* is disabled meanwhile).
isSaving ==
    \/ \E i \in 1..Len(inbox) : inbox[i].msg.type = "save"
    \/ \E h \in handlers : h.msg.type = "save"

\* The editor's handleSave, posting to the worker whatever it is doing.
PostSave ==
    /\ ~Saved
    /\ ~isSaving
    /\ sent < MaxMessages
    /\ inbox' = Append(inbox, [id |-> sent + 1,
                               msg |-> WithRequestId(
                                   SaveRequest(
                                       IF hasTransferredBytes THEN None ELSE Some(fileBytes),
                                       hasTransferredBytes, modifications),
                                   None)])
    /\ sent' = sent + 1
    /\ UNCHANGED <<uploadVars, calc, render, scan, bundle, fileBytes, modifications, request,
                   response, hasTransferredBytes, cachedBytes, cachedDoc, handlers, posted,
                   outbox, preview>>

\* self.onmessage from the delivery of a message to its first await: in
\* normalizePdfForEditing (a preview that misses the cache, a save) or in
\* sourceDoc.save() (a preview that hits it).
WorkerReceive ==
    /\ ~Saved
    /\ inbox # <<>>
    /\ inbox' = Tail(inbox)
    /\ LET id == Head(inbox).id
           msg == Head(inbox).msg
           kept == cacheOnArrival(msg, Cache(cachedBytes, cachedDoc))
           bytes == bytesOnArrival(msg, Cache(cachedBytes, cachedDoc))
       IN  IF ~IsSome(bytes)
           THEN /\ posted' = posted \cup
                      {Answer(Handler(id, msg, None, "done", None, FALSE),
                              ErrorResponse(msg.type, "No bytes available"))}
                /\ outbox' = Append(outbox, id)
                /\ cachedBytes' = kept.bytes
                /\ cachedDoc' = kept.doc
                /\ UNCHANGED handlers
           ELSE IF msg.type = "preview"
           THEN /\ cachedBytes' = kept.bytes
                /\ cachedDoc' = kept.doc
                /\ handlers' = handlers \cup
                      {IF IsSome(kept.doc) /\ kept.bytes = bytes
                       THEN Handler(id, msg, bytes, "finish", kept.doc, TRUE)
                       ELSE Handler(id, msg, bytes, "parse", None, FALSE)}
                /\ UNCHANGED <<posted, outbox>>
           ELSE /\ cachedBytes' = None
                /\ cachedDoc' = None
                /\ handlers' = handlers \cup {Handler(id, msg, bytes, "finish", None, FALSE)}
                /\ UNCHANGED <<posted, outbox>>
    /\ UNCHANGED <<uploadVars, calc, render, scan, bundle, fileBytes, modifications, request,
                   response, hasTransferredBytes, sent, preview>>

\* getOrParseDoc resumes after its awaits: lines 203-206.
WorkerParsed ==
    /\ ~Saved
    /\ \E h \in handlers, copyOK \in BOOLEAN, stripOK \in BOOLEAN :
          /\ h.at = "parse"
          /\ LET editableBytes == normalizePdfForEditing(Get(h.bytes), copyOK, stripOK).bytes
                 cache == cacheOnParse(Cache(cachedBytes, cachedDoc), editableBytes)
             IN  IF ~editableBytes.loadOK
                 THEN /\ handlers' = handlers \ {h}
                      /\ posted' = posted \cup
                            {Answer(h, ErrorResponse("preview", "load failed"))}
                      /\ outbox' = Append(outbox, h.id)
                      /\ UNCHANGED <<cachedBytes, cachedDoc>>
                 ELSE /\ handlers' = (handlers \ {h}) \cup
                            {[h EXCEPT !.at = "finish", !.sourceDoc = Some(editableBytes)]}
                      /\ cachedBytes' = cache.bytes
                      /\ cachedDoc' = cache.doc
                      /\ UNCHANGED <<posted, outbox>>
    /\ UNCHANGED <<uploadVars, calc, render, scan, bundle, fileBytes, modifications, request,
                   response, hasTransferredBytes, inbox, sent, preview>>

\* The rest of handlePreview or the whole of handleSave, and the answer.
WorkerFinish ==
    /\ ~Saved
    /\ \E h \in handlers, saveOK \in BOOLEAN :
          /\ h.at = "finish"
          /\ handlers' = handlers \ {h}
          /\ outbox' = Append(outbox, h.id)
          /\ IF h.msg.type = "preview"
             THEN /\ posted' = posted \cup
                        {Answer(h, handlePreview(Get(h.sourceDoc), h.msg.modifications, saveOK))}
                  /\ cachedDoc' =
                        IF cachedDoc = h.sourceDoc
                        THEN Some(sourceAfterPreview(Get(h.sourceDoc), h.msg.modifications))
                        ELSE cachedDoc
             ELSE /\ \E copyOK \in BOOLEAN, stripOK \in BOOLEAN :
                        LET editableBytes ==
                                normalizePdfForEditing(Get(h.bytes), copyOK, stripOK).bytes
                        IN  posted' = posted \cup
                               {Answer(h, IF ~editableBytes.loadOK
                                          THEN ErrorResponse("save", "load failed")
                                          ELSE handleSave(editableBytes,
                                                          h.msg.modifications, saveOK))}
                  /\ UNCHANGED cachedDoc
    /\ UNCHANGED <<uploadVars, calc, render, scan, bundle, fileBytes, modifications, request,
                   response, hasTransferredBytes, cachedBytes, inbox, sent, preview>>

\* The requestId of an answer: the worker copies the request's into an ok
\* preview answer (lines 284 and 291); its other answers have none.
responseRequestId(answer) ==
    IF answer.response.ok /\ answer.response.type = "preview"
    THEN answer.handler.msg.requestId
    ELSE None

\* The editor's handleMessage, App.tsx lines 848-870.
handleMessage(state, answer) ==
    IF ~answer.response.ok
    THEN [state EXCEPT !.isPreviewLoading = FALSE]
    ELSE IF answer.response.type = "preview"
    THEN IF responseRequestId(answer) # Some(state.requestId)
         THEN state
         ELSE Preview(state.requestId, FALSE, Some(answer.response.bytes))
    ELSE state

\* The answer whose handler had the given id.
PostedAnswer(id) == CHOOSE answer \in posted : answer.handler.id = id

\* The worker's oldest undelivered answer reaches the editor's listener.
HandleMessage ==
    /\ outbox # <<>>
    /\ preview' = handleMessage(preview, PostedAnswer(Head(outbox)))
    /\ outbox' = Tail(outbox)
    /\ UNCHANGED <<uploadVars, calc, render, scan, bundle, editorVars, inbox, handlers,
                   posted, sent>>

WorkerNext ==
    \/ HandleRotate
    \/ PostPreview
    \/ PostSave
    \/ WorkerReceive
    \/ WorkerParsed
    \/ WorkerFinish

WorkerSpec == WorkerInit /\ [][WorkerNext]_vars

\* The worker with the editor's listener taking its answers in the order
\* in which they were posted.
PreviewNext ==
    \/ HandleRotate
    \/ PostPreview
    \/ PostSave
    \/ WorkerReceive
    \/ WorkerParsed
    \/ WorkerFinish
    \/ HandleMessage

PreviewSpec == WorkerInit /\ [][PreviewNext]_vars

\* The editor and the worker taking turns on the files of WorkerDocs. The
\* message loop delivers a posted message to the worker, and the promises
\* its handler awaits settle: a pending request is handled.
EditFairSpec == WorkerInit /\ [][EditNext]_vars /\ WF_vars(WorkerOnMessage)

\* ------------------------------------------------- the submission bundle
\* The documents in the store when the bundle is made: upright A4 pages, the
\* cover's possibly still encrypted (its remediation failed at upload).
BundleDoc(pageCount, encrypted) ==
    MkDoc("stored", TRUE, encrypted, FALSE, FALSE, FALSE,
          PagesOf([k \in 1..pageCount |-> <<A4_WIDTH, A4_HEIGHT, 0, NullAngle, "ok">>]))

BundleFile(id, pageCount) ==
    PdfFile(id, pageCount, "done", FALSE, <<>>, FALSE, NoSummary, <<>>)

BundleFileId(k) == <<"file", k>>

\* The page counts of the documents: none to MaxFiles of them.
PageCounts == UNION {[1..n -> 1..MaxPages] : n \in 0..MaxFiles}

\* The store with the bytes of the listed documents.
BundleStore(counts) ==
    [id \in {BundleFileId(k) : k \in 1..Len(counts)} |-> BundleDoc(counts[id[2]], FALSE)]

BundleInit ==
    /\ pc = "idle"
    /\ target = "none"
    /\ rawBytes = NoDoc
    /\ normalized = None
    /\ prepared = None
    /\ fix = FixIdle
    /\ result = None
    /\ errorMsg = ""
    /\ requestId = 0
    /\ coverUploadRequestId = 0
    /\ originalBytesStore = <<>>
    /\ EditorClosed
    /\ calc = NoCall
    /\ SideIdle
    /\ \E counts \in PageCounts :
          /\ individualFiles =
                [k \in 1..Len(counts) |-> BundleFile(BundleFileId(k), counts[k])]
          /\ \/ /\ coverFile = None
                /\ bytesStore = BundleStore(counts)
             \/ \E pageCount \in 1..MaxPages, encrypted \in BOOLEAN :
                   /\ coverFile = Some(BundleFile(LaterCoverId(1), pageCount))
                   /\ bytesStore = StorePut(BundleStore(counts), LaterCoverId(1),
                                            BundleDoc(pageCount, encrypted))

\* A page of mergedPdf: where it came from (the cover, a TAB page, a
\* document), the tab number or the document's index, its place in its
\* source, and the number drawn on it (0: none yet).
MergedPage(source, of, page, stamp) ==
    [source |-> source, of |-> of, page |-> page, stamp |-> stamp]

\* copiedPages.forEach(page => { mergedPdf.addPage(page); currentPageNumber++ })
AddCopiedPages(state, source, of, doc) ==
    [state EXCEPT
        !.merged = @ \o [k \in 1..Len(doc.pages) |-> MergedPage(source, of, k, 0)],
        !.currentPageNumber = @ + Len(doc.pages)]

\* Lines 2155-2178: the TAB page is added and recorded with the current
\* page number, which then moves past it.
AddTabPage(state, tabNumber, file) ==
    [state EXCEPT
        !.merged = Append(@, MergedPage("tab", tabNumber, 1, 0)),
        !.newTabInfo = Append(@, [tabNumber |-> tabNumber, file |-> file.id,
                                  pageNumber |-> state.currentPageNumber]),
        !.currentPageNumber = @ + 1]

\* Mutant: the numbers drawn are the indices of the loop.
stampPages_FromZero(pages) ==
    [k \in 1..Len(pages) |-> [pages[k] EXCEPT !.stamp = k - 1]]

\* Lines 2194-2209: page i (from 0) gets the text of i + 1.
stampPages(pages) ==
    [k \in 1..Len(pages) |-> [pages[k] EXCEPT !.stamp = (k - 1) + 1]]

\* catch and finally: nothing is set.
BundleFailed(state) == [state EXCEPT !.at = "failed"]

\* generateSubmission up to its first await: it returns at once without
\* documents.
GenerateStart ==
    /\ bundle.at = "idle"
    /\ bundle' = IF Len(individualFiles) = 0
                 THEN [bundle EXCEPT !.at = "returned"]
                 ELSE [bundle EXCEPT !.at = "cover", !.currentPageNumber = 1]
    /\ UNCHANGED <<uploadVars, calc, editorVars, render, scan, inbox, handlers, posted,
                   sent, outbox, preview>>

\* Lines 2136-2149: the cover, if there is one, is loaded (encrypted or
\* not) and its pages are copied in; copyOK: whether copyPages completes.
AppendCover ==
    /\ bundle.at = "cover"
    /\ IF coverFile = None
       THEN bundle' = [bundle EXCEPT !.at = "files", !.i = 0]
       ELSE IF Get(coverFile).id \notin DOMAIN bytesStore
       THEN bundle' = BundleFailed(bundle)
       ELSE \E copyOK \in BOOLEAN :
               LET coverDoc == bytesStore[Get(coverFile).id]
               IN  bundle' = IF ~coverDoc.loadOK \/ ~copyOK
                             THEN BundleFailed(bundle)
                             ELSE [AddCopiedPages(bundle, "cover", 0, coverDoc)
                                      EXCEPT !.at = "files", !.i = 0]
    /\ UNCHANGED <<uploadVars, calc, editorVars, render, scan, inbox, handlers, posted,
                   sent, outbox, preview>>

\* One round of the loop of lines 2152-2191: the TAB page, then the
\* document's pages.
AppendFile ==
    /\ bundle.at = "files"
    /\ bundle.i < Len(individualFiles)
    /\ LET tabNumber == bundle.i + 1
           file == individualFiles[bundle.i + 1]
           tabbed == AddTabPage(bundle, tabNumber, file)
       IN  IF file.id \notin DOMAIN bytesStore
           THEN bundle' = BundleFailed(tabbed)
           ELSE \E copyOK \in BOOLEAN :
                   LET fileDoc == bytesStore[file.id]
                   IN  bundle' = IF ~fileDoc.loadOK \/ ~copyOK
                                 THEN BundleFailed(tabbed)
                                 ELSE [AddCopiedPages(tabbed, "file", tabNumber, fileDoc)
                                          EXCEPT !.i = @ + 1]
    /\ UNCHANGED <<uploadVars, calc, editorVars, render, scan, inbox, handlers, posted,
                   sent, outbox, preview>>

\* Lines 2193-2218: the numbers are drawn, the document is saved, and the
\* result and the tab list are set.
StampAndSave ==
    /\ bundle.at = "files"
    /\ bundle.i = Len(individualFiles)
    /\ \E saveOK \in BOOLEAN :
          LET stamped == [bundle EXCEPT !.merged = stampPages(@)]
          IN  bundle' = IF saveOK
                        THEN [stamped EXCEPT !.at = "done",
                                             !.generatedPdf = Some(stamped.merged),
                                             !.tabInfo = stamped.newTabInfo]
                        ELSE BundleFailed(stamped)
    /\ UNCHANGED <<uploadVars, calc, editorVars, render, scan, inbox, handlers, posted,
                   sent, outbox, preview>>

BundleNext ==
    \/ GenerateStart
    \/ AppendCover
    \/ AppendFile
    \/ StampAndSave

BundleSpec == BundleInit /\ [][BundleNext]_vars

\* --------------------------------------------------- the pipeline's claims

\* ------------------------------------------- a signature scan, alone
ScanInit ==
    /\ UploadIdle
    /\ EditorClosed
    /\ calc = NoCall
    /\ render = RenderIdle
    /\ WorkerIdle
    /\ scan \in {ScanState(form, "start", 1, <<>>, {}, <<>>, FALSE) : form \in AcroFormsOver(FieldRefs)}

\* The field the scan is about to call hasSignatureField on.
nextField(s) ==
    IF s.stack = <<>>
    THEN s.form.fields[s.i]
    ELSE LET top == s.stack[Len(s.stack)]
         IN  s.form.dicts[top.field].kids[top.k]

\* A call of hasSignatureField returned false: the loop that made it goes on.
advance(s) ==
    IF s.stack = <<>>
    THEN [s EXCEPT !.i = @ + 1]
    ELSE [s EXCEPT !.stack[Len(s.stack)].k = @ + 1]

\* The loops that are at their end return false, up to a loop that has a
\* next field or to the end of hasSignatureData (line 62).
RECURSIVE settle(_)
settle(s) ==
    IF s.stack = <<>>
    THEN IF s.i > Len(s.form.fields)
         THEN [s EXCEPT !.at = "done", !.out = FALSE]
         ELSE s
    ELSE LET top == s.stack[Len(s.stack)]
         IN  IF top.k > Len(s.form.dicts[top.field].kids)
             THEN settle(advance([s EXCEPT !.stack = SubSeq(@, 1, Len(@) - 1)]))
             ELSE s

\* Mutant: no field counts as visited.
alreadyVisited_Never(field, visited) == FALSE

\* hasSignatureField, line 24.
alreadyVisited(field, visited) == field \in visited

\* Mutant: only the field's type is looked at.
fieldIsSigned_ByTypeOnly(field) == field.ft = "/Sig"

\* hasSignatureField, lines 27-31.
fieldIsSigned(field) == field.ft = "/Sig" \/ field.valueDict

\* hasSignatureData, lines 47-56: up to the loop over Fields.
ScanStart ==
    /\ scan.at = "start"
    /\ scan' = IF ~scan.form.present
               THEN [scan EXCEPT !.at = "done", !.out = FALSE]
               ELSE IF scan.form.sigFlags > 0
               THEN [scan EXCEPT !.at = "done", !.out = TRUE]
               ELSE IF ~scan.form.hasFields
               THEN [scan EXCEPT !.at = "done", !.out = FALSE]
               ELSE settle([scan EXCEPT !.at = "fields"])
    /\ UNCHANGED <<uploadVars, calc, editorVars, render, workerVars>>

\* One call of hasSignatureField, lines 23-44, from its entry to its return
\* or to its first call of itself, with the returns it sets off.
VisitField ==
    /\ scan.at = "fields"
    /\ LET ref == nextField(scan)
           field == scan.form.dicts[ref]
           entered == [scan EXCEPT !.visited = @ \cup {ref}, !.entered = Append(@, ref)]
       IN  scan' = IF alreadyVisited(ref, scan.visited)
                   THEN settle(advance(scan))
                   ELSE IF fieldIsSigned(field)
                   THEN [entered EXCEPT !.at = "done", !.out = TRUE, !.stack = <<>>]
                   ELSE settle([entered EXCEPT
                                   !.stack = Append(@, [field |-> ref, k |-> 1])])
    /\ UNCHANGED <<uploadVars, calc, editorVars, render, workerVars>>

ScanNext ==
    \/ ScanStart
    \/ VisitField

ScanSpec == ScanInit /\ [][ScanNext]_vars

\* The scan is one synchronous call: once started it runs on.
ScanFairSpec == ScanSpec /\ WF_vars(ScanNext)

Returned == IsSome(result)
Structural == IsSome(result) /\ Get(result).kind = "structural"
Rasterized == IsSome(result) /\ Get(result).kind = "raster"
FixInput == Get(prepared).bytes
PageIds(doc) == [i \in 1..Len(doc.pages) |-> doc.pages[i].id]
IsExactA4(page) == page.width = A4_WIDTH /\ page.height = A4_HEIGHT

\* C1: whenever autoFixPdf returns a structural result with autoFixApplied
\* true and no page threw, the issue detector run on the returned bytes
\* finds nothing, and the returned issues list is empty.
C1_FixedBytesHaveNoIssues ==
    (Structural /\ Get(result).autoFixApplied /\ ~fix.pageThrew)
        => /\ getIssuesFromDoc(Get(result).bytes) = <<>>
           /\ Get(result).issues = <<>>

\* A structural fix was applied to an input the detector complained about.
C1_Witness ==
    /\ Structural
    /\ Get(result).autoFixApplied
    /\ ~fix.pageThrew
    /\ Len(getIssuesFromDoc(FixInput)) = Len(FixInput.pages)
    /\ Len(FixInput.pages) >= 2

\* C2: every page of a structural result is exactly A4, with no tolerance.
C2_StructuralPagesExactlyA4 ==
    Structural =>
        \A i \in 1..Len(Get(result).bytes.pages) :
            IsExactA4(Get(result).bytes.pages[i])

\* The correction pass ran on a document with a landscape page and a page
\* within the scaling threshold of A4 but not exactly A4.
C2_Witness ==
    /\ Structural
    /\ Get(result).bytes.tag = "pass2"
    /\ \E i \in 1..Len(FixInput.pages) :
          ~IsExactA4(FixInput.pages[i]) /\ ~sizeChanged(FixInput.pages[i])
    /\ \E i \in 1..Len(FixInput.pages) :
          FixInput.pages[i].width > FixInput.pages[i].height

\* C3: autoFixPdf returns the input's pages, one for one and in order, on
\* both paths; the structural pageCount is the input's page count; and the
\* rasterizer called from prepareEditablePdfBytes keeps the pages likewise.
C3_PageCountPreserved ==
    /\ Returned =>
          /\ PageIds(Get(result).bytes) = PageIds(FixInput)
          /\ Get(result).pageCount = Len(FixInput.pages)
    /\ (IsSome(prepared) /\ Get(prepared).imageOnly) =>
          PageIds(Get(prepared).bytes) = PageIds(rawBytes)

\* The rasterization fallback rebuilt a document of several pages after the
\* structural attempt on it failed.
C3_Witness ==
    /\ Rasterized
    /\ ~Get(prepared).imageOnly
    /\ Len(Get(result).bytes.pages) >= 2
    /\ Get(result).pageCount = Len(rawBytes.pages)

\* C4: no page of a structural result is left sideways: every rotation is a
\* multiple of 180.
C4_StructuralRotationsUpright ==
    Structural =>
        \A i \in 1..Len(Get(result).bytes.pages) :
            JsRem(Get(result).bytes.pages[i].rotation, 180) = 0

\* A sideways page without detected text came through the structural fix.
C4_Witness ==
    /\ Structural
    /\ \E i \in 1..Len(FixInput.pages) :
          /\ FixInput.pages[i].rotation \in {90, 270}
          /\ fix.textAngles[i] = NullAngle


\* C5: prepareEditablePdfBytes rasterizes only when the readability probe
\* fails: if every page of the normalized bytes can be read, it returns the
\* normalized bytes with imageOnly false; otherwise it rasterizes and
\* imageOnly is true.
C5_RasterizesOnlyWhenUnreadable ==
    /\ pc = "prepRaster" => ~canReadAllPages(Get(normalized).bytes)
    /\ IsSome(prepared) =>
          IF canReadAllPages(Get(normalized).bytes)
          THEN /\ ~Get(prepared).imageOnly
               /\ Get(prepared).bytes = Get(normalized).bytes
          ELSE Get(prepared).imageOnly

\* C6: for a file whose page objects the structural parser cannot read,
\* prepareEditablePdfBytes returns imageOnly true and a document with one
\* exactly-A4 page per page the rendering engine enumerated.
C6_UnreadableIsRasterized ==
    (IsSome(prepared) /\ ~canReadAllPages(rawBytes)) =>
        /\ Get(prepared).imageOnly
        /\ Len(Get(prepared).bytes.pages) = Len(rawBytes.pages)
        /\ \A i \in 1..Len(Get(prepared).bytes.pages) :
              IsExactA4(Get(prepared).bytes.pages[i])

\* A parseable file with an unreadable page among several was prepared.
C6_Witness ==
    /\ IsSome(prepared)
    /\ rawBytes.loadOK
    /\ ~canReadAllPages(rawBytes)
    /\ Len(rawBytes.pages) >= 2
    /\ \E i \in 1..Len(rawBytes.pages) : ~IsExactA4(rawBytes.pages[i])

ShownFiles ==
    {individualFiles[i] : i \in 1..Len(individualFiles)}
    \cup (IF IsSome(coverFile) THEN {Get(coverFile)} ELSE {})

\* C7: every file whose stored bytes came out of the rasterizer is marked
\* image-only.
C7_RasterizedFilesMarkedImageOnly ==
    \A f \in ShownFiles :
        (f.id \in DOMAIN bytesStore /\ bytesStore[f.id].tag = "raster")
            => f.imageOnly

\* C8: once reading or mutating a page threw in the structural pass,
\* autoFixPdf returns no structurally edited bytes: what it returns, if
\* anything, is the rasterized fallback result.
C8_AllOrNothing ==
    fix.pageThrew =>
        /\ ~Structural
        /\ Returned => /\ Get(result).bytes = rasterizePdfToEditableA4(FixInput)
                       /\ Get(result).bytes.tag = "raster"

\* A page's content could not be rewritten although every page read, and
\* autoFixPdf returned the rasterized fallback.
C8_Witness ==
    /\ fix.pageThrew
    /\ Rasterized
    /\ canReadAllPages(FixInput)
    /\ fix.firstPassBytes.tag = "pass1"

\* C9: when the structural attempt and the rasterization both fail,
\* autoFixPdf throws the error naming the failure and returns nothing; the
\* handler that catches it holds no bytes for the file and the file is gone
\* from the UI state: the cover handler, unless superseded, sets the cover to
\* null, and the individual file leaves the list.
C9_TerminalFailureRemovesFile ==
    /\ [](errorMsg = TerminalError => ~Returned)
    /\ []((pc = "failed" /\ errorMsg = TerminalError) =>
            /\ FileId \notin DOMAIN bytesStore
            /\ FileId \notin DOMAIN originalBytesStore
            /\ \A f \in ShownFiles : f.id # FileId)
    /\ [][(pc = "catch" /\ pc' = "failed" /\ target = "cover")
            => coverFile' = None]_vars

\* The individual handler caught autoFixPdf's terminal error.
C9_Witness ==
    /\ pc = "failed"
    /\ errorMsg = TerminalError
    /\ target = "individual"
    /\ individualFiles = <<>>

Unprotected(doc) ==
    ~doc.encrypted /\ ~doc.perms /\ ~doc.sigFlags /\ ~doc.sigField

\* C10: for an input with no encryption flag, no Perms dictionary and no
\* signature data, normalizePdfForEditing returns the input bytes themselves,
\* bypassApplied false and no reasons.
C10_UnprotectedUnchanged ==
    (IsSome(normalized) /\ Unprotected(rawBytes)) =>
        /\ Get(normalized).bytes = rawBytes
        /\ ~Get(normalized).bypassApplied
        /\ Get(normalized).reasons = <<>>

\* A parseable unprotected document with pages was normalized.
C10_Witness ==
    /\ IsSome(normalized)
    /\ Unprotected(rawBytes)
    /\ rawBytes.loadOK
    /\ Len(rawBytes.pages) >= 1

Has(seq, x) == \E i \in 1..Len(seq) : seq[i] = x
OnlyEncrypted(doc) ==
    doc.encrypted /\ ~doc.perms /\ ~doc.sigFlags /\ ~doc.sigField
Remediated(normalizedResult) ==
    normalizedResult.bytes.tag \in {"copied", "stripped"}

\* C11 as stated: for a document the parser loads, the reasons are exactly
\* the protections present, and an encrypted document with no certification
\* or signature structure yields reasons = <<"encryption">> with
\* bypassApplied true.
C11_ReasonsAreProtections ==
    (IsSome(normalized) /\ rawBytes.loadOK) =>
        LET reasons == Get(normalized).reasons
        IN  /\ Has(reasons, "encryption") <=> rawBytes.encrypted
            /\ Has(reasons, "certification") <=> rawBytes.perms
            /\ Has(reasons, "signature") <=> (rawBytes.sigFlags \/ rawBytes.sigField)
            /\ OnlyEncrypted(rawBytes) =>
                  /\ reasons = <<"encryption">>
                  /\ Get(normalized).bypassApplied

\* C11, amended: the reasons are exactly the protections present, each at
\* most once; an encrypted document with no certification or signature
\* structure yields reasons = <<"encryption">>, with bypassApplied true
\* exactly when the copy or the in-place rewrite produced the returned bytes,
\* and with the input bytes and bypassApplied false when both failed.
C11_ReasonsAreProtectionsWhenRemediated ==
    (IsSome(normalized) /\ rawBytes.loadOK) =>
        LET reasons == Get(normalized).reasons
        IN  /\ Has(reasons, "encryption") <=> rawBytes.encrypted
            /\ Has(reasons, "certification") <=> rawBytes.perms
            /\ Has(reasons, "signature") <=> (rawBytes.sigFlags \/ rawBytes.sigField)
            /\ \A i, j \in 1..Len(reasons) : reasons[i] = reasons[j] => i = j
            /\ OnlyEncrypted(rawBytes) =>
                  /\ reasons = <<"encryption">>
                  /\ Get(normalized).bypassApplied <=> Remediated(Get(normalized))
                  /\ ~Get(normalized).bypassApplied =>
                        Get(normalized).bytes = rawBytes

\* An encrypted document without other protections was unlocked by the copy.
C11_Witness ==
    /\ IsSome(normalized)
    /\ rawBytes.loadOK
    /\ OnlyEncrypted(rawBytes)
    /\ Get(normalized).reasons = <<"encryption">>
    /\ Get(normalized).bypassApplied
    /\ Get(normalized).bytes.tag = "copied"

\* C12: with protections detected, the page copy is tried first and its
\* bytes are returned whenever it succeeds; the in-place rewrite is returned
\* only when the copy failed; bypassApplied is true only with bytes one of
\* the two produced; and when both fail the input bytes come back with
\* bypassApplied false and the detected reasons.
C12_RemediationInOrder ==
    (IsSome(normalized) /\ Get(normalized).reasons # <<>>) =>
        LET reasons == Get(normalized).reasons
        IN  /\ \A copyOK \in BOOLEAN, stripOK \in BOOLEAN :
                  LET r == normalizePdfForEditing(rawBytes, copyOK, stripOK)
                  IN  /\ copyOK => /\ r.bytes.tag = "copied"
                                   /\ r.bypassApplied
                      /\ r.bytes.tag = "stripped" => (~copyOK /\ stripOK)
                      /\ (~copyOK /\ stripOK) => /\ r.bytes.tag = "stripped"
                                                 /\ r.bypassApplied
                      /\ (~copyOK /\ ~stripOK) =>
                            r = NormalizeResult(rawBytes, FALSE, reasons)
            /\ Get(normalized).bypassApplied => Remediated(Get(normalized))
            /\ ~Get(normalized).bypassApplied =>
                  /\ Get(normalized).bytes = rawBytes
                  /\ reasons = getBypassReasons(rawBytes)

\* The copy failed and the in-place rewrite unlocked a certified document.
C12_Witness ==
    /\ IsSome(normalized)
    /\ Get(normalized).reasons = <<"certification">>
    /\ Get(normalized).bypassApplied
    /\ Get(normalized).bytes.tag = "stripped"

\* C13: when protections were detected and neither remediation succeeded,
\* prepareEditablePdfBytes returns rasterized bytes, marked image-only, and
\* never the original bytes.
C13_UnremediatedIsRasterized ==
    (IsSome(prepared)
        /\ Get(normalized).reasons # <<>>
        /\ ~Get(normalized).bypassApplied)
        => /\ Get(prepared).imageOnly
           /\ Get(prepared).bytes.tag = "raster"

\* The pair a candidate rotation is ranked by: how far the visible text
\* angle is from the nearer of 0 and 90, then how far the page turns.
ChoicePair(current, angle, candidate) ==
    <<Min(circularDistance((angle + candidate) % 360, 0),
          circularDistance((angle + candidate) % 360, 90)),
      circularDistance(current, candidate)>>

LexLeq(p, q) == p[1] < q[1] \/ (p[1] = q[1] /\ p[2] <= q[2])

\* C14: chooseFinalPageRotationForPortrait returns 0 for every current
\* rotation when there is no text angle; otherwise it returns a member of
\* {0, 180} whose (distance, turning cost) pair is lexicographically no
\* greater than the other member's.
C14_ChoosesSmallestPair ==
    calc.fn = "chooseFinalPageRotationForPortrait" =>
        IF calc.angle = NullAngle
        THEN calc.out = 0
        ELSE /\ calc.out \in {0, 180}
             /\ \A candidate \in {0, 180} :
                   LexLeq(ChoicePair(calc.currentPageRotation, calc.angle, calc.out),
                          ChoicePair(calc.currentPageRotation, calc.angle, candidate))

\* Text at 180 on an upright page: the half turn wins on distance although
\* it costs the larger turn.
C14_Witness ==
    /\ calc.fn = "chooseFinalPageRotationForPortrait"
    /\ calc.currentPageRotation = 0
    /\ calc.angle = 180
    /\ calc.out = 180

\* C15: for every angle a in [0, 360), snapToRightAngle(a) is the member of
\* {0, 90, 180, 270} nearest to a by circularDistance, the earliest such
\* member on a tie; it is at most 45 away from a; and snapping it again
\* changes nothing.
C15_SnapsToNearestRightAngle ==
    calc.fn = "snapToRightAngle" =>
        LET a == calc.angle
            snapped == calc.out
        IN  /\ snapped \in {0, 90, 180, 270}
            /\ \A c \in {0, 90, 180, 270} :
                  /\ circularDistance(a, snapped) <= circularDistance(a, c)
                  /\ circularDistance(a, c) = circularDistance(a, snapped)
                        => snapped <= c
            /\ circularDistance(a, snapped) <= 45
            /\ snapToRightAngle(snapped) = snapped

\* An angle midway between 270 and 0 was snapped.
C15_Witness ==
    /\ calc.fn = "snapToRightAngle"
    /\ calc.angle = 315
    /\ calc.out = 0

\* Whether the fix-type map lists a fix type for the page at an index.
HasFixType(fixTypes, pageIndex, type) ==
    pageIndex \in DOMAIN fixTypes /\ Has(fixTypes[pageIndex], type)

\* The i-th page's stored rotation differs after the first pass, or after
\* the correction pass, from what it was before that pass.
RotationWasChanged(i) ==
    \/ fix.firstPassBytes.pages[i].rotation # FixInput.pages[i].rotation
    \/ fix.finalBytes.pages[i].rotation # fix.firstPassBytes.pages[i].rotation

SizeDiffersFromA4(page) ==
    \/ Abs(page.width - A4_WIDTH) > ScalingThreshold
    \/ Abs(page.height - A4_HEIGHT) > ScalingThreshold

ScenarioAPage(page) ==
    /\ page.width > page.height
    /\ SizeDiffersFromA4(page)
    /\ page.rotation = 90
    /\ page.angle = 90

\* C16 as stated: in the map autoFixPdf returns, a page has "scaling" iff
\* its original width or height differed from A4 by more than 0.5pt and
\* (where the two passes ran) "rotation" iff its rotation was changed; a
\* landscape non-A4 page at rotation 90 with text angle 90 has both; and
\* autoFixApplied is true iff the map is non-empty.
C16_FixTypesRecordChanges ==
    Returned =>
        LET fixTypes == Get(result).autoFixedPageFixTypes
        IN  /\ \A i \in 1..Len(FixInput.pages) :
                  /\ HasFixType(fixTypes, i - 1, "scaling")
                        <=> SizeDiffersFromA4(FixInput.pages[i])
                  /\ Structural =>
                        (HasFixType(fixTypes, i - 1, "rotation")
                            <=> RotationWasChanged(i))
                  /\ ScenarioAPage(FixInput.pages[i]) =>
                        /\ HasFixType(fixTypes, i - 1, "rotation")
                        /\ HasFixType(fixTypes, i - 1, "scaling")
            /\ Get(result).autoFixApplied <=> (DOMAIN fixTypes # {})

\* C16, amended: the claim holds of the structural result; the rasterized
\* fallback result records "scaling" alone for every page, whatever the
\* page's original size and rotation, with autoFixApplied true.
C16_StructuralFixTypesRecordChanges ==
    /\ Structural =>
          LET fixTypes == Get(result).autoFixedPageFixTypes
          IN  /\ DOMAIN fixTypes \subseteq 0..(Len(FixInput.pages) - 1)
              /\ \A i \in 1..Len(FixInput.pages) :
                    /\ HasFixType(fixTypes, i - 1, "scaling")
                          <=> SizeDiffersFromA4(FixInput.pages[i])
                    /\ HasFixType(fixTypes, i - 1, "rotation")
                          <=> RotationWasChanged(i)
                    /\ ScenarioAPage(FixInput.pages[i]) =>
                          fixTypes[i - 1] = <<"rotation", "scaling">>
              /\ \A k \in DOMAIN fixTypes : fixTypes[k] # <<>>
              /\ Get(result).autoFixApplied <=> (DOMAIN fixTypes # {})
    /\ Rasterized =>
          /\ Get(result).autoFixApplied
          /\ \A i \in 1..Len(FixInput.pages) :
                Get(result).autoFixedPageFixTypes[i - 1] = <<"scaling">>

\* A landscape non-A4 page at rotation 90 with text at 90 came through the
\* structural fix beside a page the correction pass turned.
C16_Witness ==
    /\ Structural
    /\ ScenarioAPage(FixInput.pages[1])
    /\ Get(result).autoFixedPageFixTypes[0] = <<"rotation", "scaling">>
    /\ \E i \in 2..Len(FixInput.pages) :
          fix.finalBytes.pages[i].rotation # fix.firstPassBytes.pages[i].rotation

\* ------------------------------------------------ the editor's claims
\* The worker answered the request that is now in the slot.
Answered == IsSome(request) /\ IsSome(response) /\ Get(response).ok

RequestedMods == Get(request).modifications
LastMod == RequestedMods[Len(RequestedMods)]

Targets(mod, i) == \E j \in 1..Len(mod.pageIndices) : mod.pageIndices[j] = i - 1

\* The pages as the entries before the last one left them.
PagesBeforeLastMod ==
    applyModificationsFrom(fileBytes.pages, SubSeq(RequestedMods, 1, Len(RequestedMods) - 1), 1)

AnsweredFitToA4 == Answered /\ RequestedMods # <<>> /\ LastMod.type = "fitToA4"

FracLeq(a, b) == a.n * b.d <= b.n * a.d

A4Scale(page) ==
    LET sw == Frac(A4_WIDTH, page.width)
        sh == Frac(A4_HEIGHT, page.height)
    IN  IF FracLeq(sw, sh) THEN sw ELSE sh

A4OffsetX(page) ==
    FracDiv(FracSub(FracOfInt(A4_WIDTH), FracMul(FracOfInt(page.width), A4Scale(page))), FracOfInt(2))

A4OffsetY(page) ==
    FracDiv(FracSub(FracOfInt(A4_HEIGHT), FracMul(FracOfInt(page.height), A4Scale(page))), FracOfInt(2))

\* Every pair (x, y) of numbers of the array became (x*s + dx, y*s + dy).
PairsMapped(before, after, s, dx, dy) ==
    IsSome(before) =>
        /\ IsSome(after)
        /\ Len(Get(after)) = Len(Get(before))
        /\ \A k \in 1..(Len(Get(before)) \div 2) :
              LET x == Get(before)[2 * k - 1]
                  y == Get(before)[2 * k]
              IN  (x.isNumber /\ y.isNumber) =>
                      /\ Get(after)[2 * k - 1] = PdfNumber(FracAdd(FracMul(x.value, s), dx))
                      /\ Get(after)[2 * k] = PdfNumber(FracAdd(FracMul(y.value, s), dy))

\* C17: when the last modification of an answered request is a fitToA4,
\* then on every well-formed page it targets, with s = min(A4_WIDTH/width,
\* A4_HEIGHT/height), dx = (A4_WIDTH - width*s)/2 and dy = (A4_HEIGHT -
\* height*s)/2 taken from the page as it was before that modification,
\* every numeric pair (x, y) of each annotation's Rect and QuadPoints is
\* (x*s + dx, y*s + dy) in the answer.
C17_FitToA4MapsAnnotations ==
    AnsweredFitToA4 =>
        \A i \in 1..Len(PagesBeforeLastMod) :
            LET before == PagesBeforeLastMod[i]
                after == Get(response).bytes.pages[i]
                s == A4Scale(before)
                dx == A4OffsetX(before)
                dy == A4OffsetY(before)
            IN  (Targets(LastMod, i) /\ before.bad = "ok" /\ IsSome(before.annots)) =>
                    /\ IsSome(after.annots)
                    /\ Len(Get(after.annots)) = Len(Get(before.annots))
                    /\ \A a \in 1..Len(Get(before.annots)) :
                          /\ PairsMapped(Get(before.annots)[a].rect,
                                         Get(after.annots)[a].rect, s, dx, dy)
                          /\ PairsMapped(Get(before.annots)[a].quadPoints,
                                         Get(after.annots)[a].quadPoints, s, dx, dy)

\* A page with a highlight (Rect and QuadPoints) was fitted with a scale
\* other than 1 and offsets that differ from one another.
C17_Witness ==
    /\ AnsweredFitToA4
    /\ \E i \in 1..Len(PagesBeforeLastMod) :
          LET before == PagesBeforeLastMod[i]
          IN  /\ Targets(LastMod, i)
              /\ before.bad = "ok"
              /\ IsSome(before.annots)
              /\ \E a \in 1..Len(Get(before.annots)) :
                    /\ IsSome(Get(before.annots)[a].quadPoints)
                    /\ Get(Get(response).bytes.pages[i].annots)[a].quadPoints
                          # Get(before.annots)[a].quadPoints
              /\ A4Scale(before) # FracOfInt(1)
              /\ A4OffsetX(before) # A4OffsetY(before)

\* The list applied one entry at a time, each on the outcome of the last.
RECURSIVE OneAtATime(_, _)
OneAtATime(doc, mods) ==
    IF mods = <<>>
    THEN doc
    ELSE OneAtATime(applyModifications(doc, <<Head(mods)>>), Tail(mods))

\* The sum of the angles of the rotate entries that target page i.
RECURSIVE RotationSum(_, _)
RotationSum(mods, i) ==
    IF mods = <<>>
    THEN 0
    ELSE (IF Head(mods).type = "rotate" /\ Targets(Head(mods), i)
          THEN Head(mods).angle
          ELSE 0) + RotationSum(Tail(mods), i)

\* C18: the pages of an answer are those obtained by applying the
\* request's modifications one at a time in list order, each on the page
\* state the previous ones left, and the rotate entries on a page add up:
\* its rotation is the original one plus the sum of their angles.
C18_AppliedInListOrder ==
    Answered =>
        /\ Get(response).bytes.pages = OneAtATime(fileBytes, RequestedMods).pages
        /\ \A i \in 1..Len(fileBytes.pages) :
              fileBytes.pages[i].bad # "read" =>
                  Get(response).bytes.pages[i].rotation
                      = fileBytes.pages[i].rotation + RotationSum(RequestedMods, i)

\* Two rotate entries on one page were answered, and the page is turned by
\* the sum of the two.
C18_Witness ==
    /\ Answered
    /\ Len(RequestedMods) = 2
    /\ RequestedMods[1].type = "rotate"
    /\ RequestedMods[2].type = "rotate"
    /\ RequestedMods[1].angle = 90
    /\ RequestedMods[2].angle = 90
    /\ \E i \in 1..Len(fileBytes.pages) :
          /\ Targets(RequestedMods[1], i)
          /\ Targets(RequestedMods[2], i)
          /\ Get(response).bytes.pages[i].rotation = fileBytes.pages[i].rotation + 180

\* C19: after the rotate modifications of an answered request, negative
\* angles included, every page rotation of the answer lies in the
\* canonical range [0, 360), being (current rotation + angle) mod 360.
C19_RotationsAreCanonical ==
    Answered =>
        \A i \in 1..Len(Get(response).bytes.pages) :
            /\ Get(response).bytes.pages[i].rotation \in 0..359
            /\ fileBytes.pages[i].bad # "read" =>
                  Get(response).bytes.pages[i].rotation
                      = normalizeAngle(fileBytes.pages[i].rotation
                                       + RotationSum(RequestedMods, i))

AnsweredSave == Answered /\ Get(response).type = "save"

IssuesOfPage(issues, i) == SelectSeq(issues, LAMBDA issue : issue.pageIndex = i - 1)

OrientationDefect(page) == page.width > page.height \/ page.rotation % 180 # 0

SizeDefect(page) ==
    \/ page.width < A4_WIDTH - IssueTolerance
    \/ page.width > A4_WIDTH + IssueTolerance
    \/ page.height < A4_HEIGHT - IssueTolerance
    \/ page.height > A4_HEIGHT + IssueTolerance

\* C20: in the issues of a save answer every readable page has no issue
\* iff its box is portrait, its rotation a multiple of 180 and both
\* dimensions within 5pt of A4; otherwise it has one issue, of type
\* 'orientation' iff the box is landscape or the rotation sideways while
\* the size is within tolerance, 'size' iff only the size misses the
\* tolerance, 'both' iff both defects apply; and the application's own
\* detector gives the same types for the same document.
C20_IssuesClassifyPages ==
    AnsweredSave =>
        LET doc == Get(response).bytes
            issues == Get(response).issues
            own == getIssuesFromDoc(doc)
        IN  /\ Len(own) = Len(issues)
            /\ \A k \in 1..Len(issues) :
                  /\ own[k].pageIndex = issues[k].pageIndex
                  /\ own[k].issueType = issues[k].issueType
            /\ \A i \in 1..Len(doc.pages) :
                  doc.pages[i].bad # "read" =>
                      LET found == IssuesOfPage(issues, i)
                          orientation == OrientationDefect(doc.pages[i])
                          size == SizeDefect(doc.pages[i])
                      IN  /\ found = <<>> <=> (~orientation /\ ~size)
                          /\ Len(found) <= 1
                          /\ found # <<>> =>
                                /\ found[1].issueType = "orientation"
                                      <=> (orientation /\ ~size)
                                /\ found[1].issueType = "size"
                                      <=> (~orientation /\ size)
                                /\ found[1].issueType = "both"
                                      <=> (orientation /\ size)

\* A saved file of two edited pages: one left with an orientation issue
\* alone, the other with a size issue alone.
C20_Witness ==
    /\ AnsweredSave
    /\ RequestedMods # <<>>
    /\ \E k \in 1..Len(Get(response).issues) :
          Get(response).issues[k].issueType = "orientation"
    /\ \E k \in 1..Len(Get(response).issues) :
          Get(response).issues[k].issueType = "size"

\* ------------------------------------------------ the two passes' claims
\* C21 as stated: every page of a structural result has rotation 0.
C21_FinalRotationsAreZero ==
    Structural =>
        \A i \in 1..Len(Get(result).bytes.pages) :
            Get(result).bytes.pages[i].rotation = 0

\* C21, amended: every page of a structural result has rotation 0 or 180,
\* and 180 exactly where the page's text reads at 180 or 270 in content
\* space, whether the first pass chose 180 or the correction pass added it.
C21_FinalRotationsFollowText ==
    Structural =>
        \A i \in 1..Len(Get(result).bytes.pages) :
            LET page == Get(result).bytes.pages[i]
            IN  /\ page.rotation \in {0, 180}
                /\ page.rotation = 180 <=> FixInput.pages[i].angle \in {180, 270}

\* The structural result holds a page the first pass turned to 180, which
\* is still at 180 in the returned bytes.
C21_Witness ==
    /\ Structural
    /\ \E i \in 1..Len(FixInput.pages) :
          /\ fix.firstPassBytes.pages[i].rotation = 180
          /\ Get(result).bytes.pages[i].rotation = 180

\* Nothing but the detection on the original bytes threw in the structural
\* attempt.
OnlyFirstDetectionThrew ==
    fix.firstDetectionThrew /\ ~fix.secondDetectionThrew /\ ~fix.pageThrew /\ ~fix.saveThrew

CorrectionPassDone ==
    /\ fix.firstPassBytes # NoDoc
    /\ pc # "autofix2"
    /\ ~fix.secondDetectionThrew
    /\ ~fix.saveThrew

DegreesApart(a, b) ==
    LET d == IF a >= b THEN a - b ELSE b - a
    IN  IF d <= 360 - d THEN d ELSE 360 - d

\* The page of the first-pass bytes shows its text upside down: the
\* visible angle is within 20 degrees of 180 or 270 and strictly nearer to
\* those than to 0 or 90.
ShowsTextUpsideDown(page) ==
    /\ page.angle # NullAngle
    /\ LET visible == (page.angle + page.rotation) % 360
           upside == Min(DegreesApart(visible, 180), DegreesApart(visible, 270))
           upright == Min(DegreesApart(visible, 0), DegreesApart(visible, 90))
       IN  upside <= 20 /\ upside < upright

\* C23: the correction pass judges each page by the text angle re-detected
\* on the first-pass bytes and the page's first-pass rotation; it adds 180
\* to the rotation of exactly the pages that show their text upside down,
\* leaves every other page as the first pass wrote it, and when no page
\* qualifies the final bytes are the first-pass bytes themselves.
C23_CorrectionTurnsUpsideDownPages ==
    CorrectionPassDone =>
        LET first == fix.firstPassBytes.pages
            final == fix.finalBytes.pages
            Qualifies(i) == first[i].bad # "read" /\ ShowsTextUpsideDown(first[i])
        IN  /\ Len(final) = Len(first)
            /\ \A i \in 1..Len(first) :
                  IF Qualifies(i)
                  THEN final[i] = [first[i] EXCEPT !.rotation = @ + 180]
                  ELSE final[i] = first[i]
            /\ (\A i \in 1..Len(first) : ~Qualifies(i)) =>
                  fix.finalBytes = fix.firstPassBytes
            /\ (\E i \in 1..Len(first) : Qualifies(i)) =>
                  fix.finalBytes.tag = "pass2"

\* Of two pages the correction pass turned one and left the other.
C23_Witness ==
    /\ CorrectionPassDone
    /\ fix.finalBytes.tag = "pass2"
    /\ \E i, j \in 1..Len(fix.firstPassBytes.pages) :
          /\ fix.finalBytes.pages[i].rotation = fix.firstPassBytes.pages[i].rotation + 180
          /\ fix.finalBytes.pages[j] = fix.firstPassBytes.pages[j]
          /\ fix.firstPassBytes.pages[j].angle # NullAngle

\* --------------------------------------- the rendering session's claims
IsPasswordFailure(event) ==
    /\ event.event = "rejected"
    /\ (event.error.name = "PasswordException" \/ event.error.mentionsPassword)

\* C24: in a rendering session every password-required or wrong-password
\* failure is followed by a prompt, and an entered password by a retry
\* with that password; a failure that is no password failure is thrown on
\* without a prompt; a declined prompt is followed by the explicit
\* password-required error and by nothing else; and the session leaves the
\* opening loop only in one of these ways or by a successful open.
C24_PasswordProtocol ==
    LET log == render.log
    IN  /\ \A k \in 1..Len(log) :
              /\ IsPasswordFailure(log[k]) =>
                    k < Len(log) /\ log[k + 1].event = "prompt"
              /\ (log[k].event = "rejected" /\ ~IsPasswordFailure(log[k])) =>
                    /\ k < Len(log)
                    /\ log[k + 1] = RenderEvent("throw", None, log[k].error)
              /\ (log[k].event = "answer" /\ IsSome(log[k].password) /\ k < Len(log)) =>
                    log[k + 1] = RenderEvent("open", log[k].password, NoError)
              /\ (log[k].event = "answer" /\ ~IsSome(log[k].password)) =>
                    /\ k + 1 = Len(log)
                    /\ log[k + 1] = RenderEvent("throw", None, PasswordRequiredError)
              /\ log[k].event = "prompt" =>
                    (k < Len(log) => log[k + 1].event = "answer")
        /\ render.at = "open" =>
              \/ log = <<>>
              \/ log[Len(log)].event = "answer" /\ IsSome(log[Len(log)].password)

\* C25: when a rendering session is over, by a normal return, by a page
\* that threw or by a failed open, every loading task it opened has been
\* destroyed; and while it runs at most the task in use is not.
C25_LoadingTasksDestroyed ==
    /\ render.at \in {"returned", "thrown"} =>
          \A k \in 1..Len(render.tasks) : render.tasks[k].destroyed
    /\ \A k \in 1..(Len(render.tasks) - 1) : render.tasks[k].destroyed

\* --------------------------------------- the editor's claims, continued
\* C27: once the editor has handed the file's bytes to the worker, with
\* one request answered before the next is made, a request that relies on
\* the cached bytes is never answered "No bytes available", whether the
\* requests before it succeeded or failed.
C27_CachedBytesSurviveFailure ==
    (/\ IsSome(request)
     /\ Get(request).useCachedBytes
     /\ IsSome(response)) => Get(response).error # "No bytes available"

\* ------------------------------------------------- the worker's claims
\* The documents the worker can parse from bytes: loadPdfForEditing of what
\* normalizePdfForEditing returns for them.
ParsesOf(bytes) ==
    {normalizePdfForEditing(bytes, copyOK, stripOK).bytes :
        copyOK \in BOOLEAN, stripOK \in BOOLEAN}

PreviewAnswers == {answer \in posted : answer.response.type = "preview" /\ answer.response.ok}

C28_PreviewsDoNotAccumulate ==
    /\ \A answer \in PreviewAnswers :
          \E parsed \in ParsesOf(fileBytes) :
             answer.response = handlePreview(parsed, answer.handler.msg.modifications, TRUE)
    /\ IsSome(cachedDoc) => Get(cachedDoc) \in ParsesOf(fileBytes)

\* Two previews with different lists of modifications were answered, the
\* second from the cached document the first had been computed from.
C28_Witness ==
    \E first, second \in PreviewAnswers :
       /\ first.handler.id < second.handler.id
       /\ first.handler.msg.modifications # <<>>
       /\ second.handler.msg.modifications # first.handler.msg.modifications
       /\ second.handler.hit
       /\ second.handler.sourceDoc = first.handler.sourceDoc
       /\ second.response.bytes.pages # Get(second.handler.sourceDoc).pages

\* ----------------------------------------------- the signature scan's claim
\* The fields that can be reached from the Fields array through Kids.
RECURSIVE ReachableFrom(_, _)
ReachableFrom(form, refs) ==
    LET more == refs \cup UNION {{form.dicts[ref].kids[k] : k \in 1..Len(form.dicts[ref].kids)} :
                                    ref \in refs}
    IN  IF more = refs THEN refs ELSE ReachableFrom(form, more)

ReachableFields(form) == ReachableFrom(form, {form.fields[i] : i \in 1..Len(form.fields)})

ScanRan == scan.form.present /\ scan.form.sigFlags = 0 /\ scan.form.hasFields

Healthy(doc) == [doc EXCEPT !.pages = [i \in 1..Len(@) |-> [@[i] EXCEPT !.bad = "ok"]]]

\* C30: in every answer with a document, a page that can be read and
\* written is as all the modifications of the request make it when no
\* page is malformed; a page that cannot be read is as it was; a page whose
\* content cannot be rewritten has no content operators added and its
\* annotations as they were; and a request is refused only for missing
\* bytes, a failed load or a failed save.
C30_MalformedPagesAreSkipped ==
    IsSome(response) =>
       IF Get(response).ok
       THEN \E parsed \in ParsesOf(fileBytes) :
               LET mods == Get(request).modifications
                   out == Get(response).bytes.pages
                   expected == applyModifications(Healthy(parsed), mods).pages
               IN  /\ Len(out) = Len(parsed.pages)
                   /\ \A i \in 1..Len(out) :
                         /\ parsed.pages[i].bad = "ok" =>
                               out[i] = expected[i]
                         /\ parsed.pages[i].bad = "read" =>
                               out[i] = parsed.pages[i]
                         /\ parsed.pages[i].bad = "mutate" =>
                               /\ out[i].content = parsed.pages[i].content
                               /\ out[i].annots = parsed.pages[i].annots
                               /\ out[i].rotation = expected[i].rotation
       ELSE Get(response).error \in {"No bytes available", "load failed", "save failed"}

\* A rotation and then a fit, each of both pages of a file whose first page
\* throws, were answered with a document whose second page is turned and
\* fitted.
C30_Witness ==
    /\ IsSome(response)
    /\ Get(response).ok
    /\ Len(fileBytes.pages) = 2
    /\ fileBytes.pages[1].bad # "ok"
    /\ fileBytes.pages[2].bad = "ok"
    /\ LET mods == Get(request).modifications
           out == Get(response).bytes.pages
       IN  /\ Len(mods) = 2
           /\ mods[1].type = "rotate"
           /\ mods[2].type = "fitToA4"
           /\ mods[1].pageIndices = <<0, 1>>
           /\ mods[2].pageIndices = <<0, 1>>
           /\ out[2].rotation = fileBytes.pages[2].rotation + mods[1].angle
           /\ out[2].content # <<>>

\* ------------------------------------------------- the last claims
\* Both detections returned, and the one on the first-pass bytes gave every
\* page the angle the one on the original bytes had given it.
SameAnglesInBothPasses ==
    /\ CorrectionPassDone
    /\ ~fix.firstDetectionThrew
    /\ detectDominantTextAngles(fix.firstPassBytes) = fix.textAngles

\* C34: when the detection on the first-pass bytes returns for every page
\* the angle it returned on the original bytes, every page the first pass
\* wrote that has a detected angle shows its text at 0 or 90, the
\* correction pass turns no page and records no rotation of its own, and
\* the final bytes are the first-pass bytes.
C34_SameAnglesNeedNoCorrection ==
    SameAnglesInBothPasses =>
        /\ \A i \in 1..Len(fix.firstPassBytes.pages) :
              LET page == fix.firstPassBytes.pages[i]
              IN  (page.bad # "read" /\ fix.textAngles[i] # NullAngle) =>
                     normalizeAngle(fix.textAngles[i] + page.rotation) \in {0, 90}
        /\ upsideDownPages(fix.firstPassBytes, fix.textAngles) = {}
        /\ fix.finalBytes = fix.firstPassBytes
        /\ fix.rotatedPages = firstPassRotatedPages(FixInput.pages, fix.textAngles)

\* Both detections returned on a file with a page whose text reads at 180
\* or 270: the first pass turned it to 180 and the correction pass left it.
C34_Witness ==
    /\ SameAnglesInBothPasses
    /\ pc = "autofix3"
    /\ \E i \in 1..Len(fix.firstPassBytes.pages) :
          /\ fix.textAngles[i] \in {180, 270}
          /\ FixInput.pages[i].rotation # 180
          /\ fix.firstPassBytes.pages[i].rotation = 180
          /\ fix.finalBytes.pages[i].rotation = 180

\* The id of the cover upload that started last.
LastStartedCoverId ==
    IF coverUploadRequestId = requestId THEN FileId ELSE LaterCoverId(coverUploadRequestId)

\* Every cover upload has come to its end.
CoverUploadsSettled ==
    /\ target = "cover"
    /\ pc \in {"stored", "failed", "returned"}
    /\ coverFile # Some(Placeholder(LaterCoverId(coverUploadRequestId)))

\* C33: a cover upload that is no longer the last started changes neither
\* the cover nor the byte stores; the stores never hold an entry for
\* another cover than the last started; and when every upload has come to
\* its end the cover is what the last started upload produced, with its
\* bytes in both stores, or null with both stores empty if it failed.
C33_LastCoverUploadWins ==
    /\ [][(Superseded /\ pc' # pc) => UNCHANGED uiVars]_vars
    /\ [](target = "cover" =>
            /\ DOMAIN bytesStore \subseteq {LastStartedCoverId}
            /\ DOMAIN originalBytesStore \subseteq {LastStartedCoverId})
    /\ [](CoverUploadsSettled =>
            IF coverUploadRequestId = requestId
            THEN IF pc = "stored"
                 THEN /\ coverFile = Some(ProcessedFile(FileId, Get(result),
                                                        Get(prepared).imageOnly))
                      /\ bytesStore = StorePut(<<>>, FileId, Get(result).bytes)
                      /\ originalBytesStore = StorePut(<<>>, FileId, Get(prepared).bytes)
                 ELSE /\ pc = "failed"
                      /\ coverFile = None
                      /\ bytesStore = <<>>
                      /\ originalBytesStore = <<>>
            ELSE IF IsSome(coverFile)
                 THEN /\ coverFile = Some(LaterCoverFile(coverUploadRequestId))
                      /\ DOMAIN bytesStore = {LastStartedCoverId}
                      /\ DOMAIN originalBytesStore = {LastStartedCoverId}
                 ELSE /\ bytesStore = <<>>
                      /\ originalBytesStore = <<>>)

\* The followed upload ran to its last check after a later upload had
\* started and stored its result: it returned, and the cover and the
\* stores are the later upload's.
C33_Witness ==
    /\ CoverUploadsSettled
    /\ pc = "returned"
    /\ IsSome(result)
    /\ coverFile = Some(LaterCoverFile(coverUploadRequestId))
    /\ DOMAIN bytesStore = {LaterCoverId(coverUploadRequestId)}

\* C35: bytes that normalizePdfForEditing returned with bypassApplied true
\* go through it unchanged: run again on them, whether its copy and its
\* rewrite would complete or not, it finds no reasons and returns the same
\* bytes with bypassApplied false.
C35_NormalizeIsIdempotent ==
    (IsSome(normalized) /\ Get(normalized).bypassApplied) =>
        \A copyOK \in BOOLEAN, stripOK \in BOOLEAN :
            normalizePdfForEditing(Get(normalized).bytes, copyOK, stripOK)
                = NormalizeResult(Get(normalized).bytes, FALSE, <<>>)

\* C37: the last modification of an answered request leaves the number of
\* pages as it was and every page it does not list as the entries before
\* it left it; on a page it lists a rotate entry changes nothing but the
\* rotation, and a fitToA4 entry nothing but the page box, the content
\* operators and the annotations; and page indices below 0 or from the
\* page count on, added to its list, change nothing of the outcome.
C37_ModificationsAreLocal ==
    (Answered /\ RequestedMods # <<>>) =>
        LET was == PagesBeforeLastMod
            now == Get(response).bytes.pages
        IN  /\ Len(now) = Len(fileBytes.pages)
            /\ Len(was) = Len(fileBytes.pages)
            /\ \A i \in 1..Len(now) :
                  IF ~Targets(LastMod, i)
                  THEN now[i] = was[i]
                  ELSE IF LastMod.type = "rotate"
                  THEN now[i] = [was[i] EXCEPT !.rotation = now[i].rotation]
                  ELSE now[i] = [was[i] EXCEPT !.width = now[i].width,
                                               !.height = now[i].height,
                                               !.content = now[i].content,
                                               !.annots = now[i].annots]
            /\ \A outside \in {-1, Len(was), Len(was) + 1} :
                  applyModification(
                      was, [LastMod EXCEPT !.pageIndices = Append(@, outside)]) = now

\* Of two pages the last modification listed the first only: the first is
\* changed and the second is as it was.
C37_Witness ==
    /\ Answered
    /\ Len(RequestedMods) = 2
    /\ Len(fileBytes.pages) = 2
    /\ LastMod.pageIndices = <<0>>
    /\ RequestedMods[1].pageIndices = <<0, 1>>
    /\ Get(response).bytes.pages[1] # PagesBeforeLastMod[1]
    /\ Get(response).bytes.pages[2] = PagesBeforeLastMod[2]
    /\ PagesBeforeLastMod[2] # fileBytes.pages[2]

\* C38: when the last modification of an answered request is a fitToA4,
\* then for every page it lists whose box was exactly A4 before it, set by
\* an earlier fitToA4 or to begin with, the scale is 1 and both offsets
\* are 0, and the page's box and all of its annotations' Rect and
\* QuadPoints entries are in the answer as they were.
C38_FitToA4IsIdempotent ==
    AnsweredFitToA4 =>
        \A i \in 1..Len(fileBytes.pages) :
            LET was == PagesBeforeLastMod[i]
                now == Get(response).bytes.pages[i]
            IN  (Targets(LastMod, i) /\ IsExactA4(was) /\ was.bad # "read") =>
                    /\ fitScale(was) = FracOfInt(1)
                    /\ fitDx(was) = FracOfInt(0)
                    /\ fitDy(was) = FracOfInt(0)
                    /\ now.width = was.width
                    /\ now.height = was.height
                    /\ now.annots = was.annots

\* A page with annotations that was not A4 was fitted twice: the first
\* fitToA4 moved its annotations and the second left them.
C38_Witness ==
    /\ AnsweredFitToA4
    /\ Len(RequestedMods) = 2
    /\ RequestedMods[1].type = "fitToA4"
    /\ \E i \in 1..Len(fileBytes.pages) :
          /\ Targets(LastMod, i)
          /\ Targets(RequestedMods[1], i)
          /\ ~IsExactA4(fileBytes.pages[i])
          /\ IsSome(fileBytes.pages[i].annots)
          /\ PagesBeforeLastMod[i].annots # fileBytes.pages[i].annots
          /\ Get(response).bytes.pages[i].annots = PagesBeforeLastMod[i].annots
          /\ Len(Get(response).bytes.pages[i].content) = 4

\* What C39 says of one issue and the page it is about.
LandscapeIsNeverOrientationOnly(issue, page) ==
    /\ Has(issue.description, "Landscape Page Box") =>
          /\ page.width > page.height
          /\ Has(issue.description, "Non-A4 Size")
          /\ issue.issueType = "both"
    /\ issue.issueType = "orientation" =>
          /\ issue.description = <<"Sideways Page Rotation">>
          /\ JsRem(page.rotation, 180) # 0
          /\ page.height >= page.width
          /\ ~SizeDefect(page)

\* C39: in the issues of a save answer, and in those the application's own
\* detector finds in the same document, a readable page with a landscape
\* box has an issue that names the landscape box and the size and is of
\* type 'both'; every issue that names the landscape box names the size
\* too and is of type 'both'; and an issue of type 'orientation' names the
\* sideways rotation alone, of a portrait box within 5pt of A4.
C39_LandscapeBoxIsBoth ==
    AnsweredSave =>
        LET doc == Get(response).bytes
            issues == Get(response).issues
            own == getIssuesFromDoc(doc)
        IN  /\ \A k \in 1..Len(issues) :
                  doc.pages[issues[k].pageIndex + 1].bad # "read" =>
                      LandscapeIsNeverOrientationOnly(
                          issues[k], doc.pages[issues[k].pageIndex + 1])
            /\ \A k \in 1..Len(own) :
                  doc.pages[own[k].pageIndex + 1].bad # "read" =>
                      LandscapeIsNeverOrientationOnly(
                          own[k], doc.pages[own[k].pageIndex + 1])
            /\ \A i \in 1..Len(doc.pages) :
                  (doc.pages[i].bad # "read" /\ doc.pages[i].width > doc.pages[i].height) =>
                      /\ Len(IssuesOfPage(issues, i)) = 1
                      /\ Has(IssuesOfPage(issues, i)[1].description, "Landscape Page Box")
                      /\ IssuesOfPage(issues, i)[1].issueType = "both"
                      /\ IssuesOfPage(own, i) = IssuesOfPage(issues, i)

\* A saved file has a page with a landscape box turned upright, whose
\* issue names the box and the size and is of type 'both', and another
\* saved file would differ: here the rotation is no defect.
C39_Witness ==
    /\ AnsweredSave
    /\ \E k \in 1..Len(Get(response).issues) :
          LET issue == Get(response).issues[k]
              page == Get(response).bytes.pages[issue.pageIndex + 1]
          IN  /\ issue.description = <<"Landscape Page Box", "Non-A4 Size">>
              /\ issue.issueType = "both"
              /\ JsRem(page.rotation, 180) = 0
              /\ page.width > page.height

\* The request at the worker has its answer: one of its own type, with
\* result bytes when ok and with an error and no bytes otherwise.
AnsweredInKind ==
    /\ IsSome(request)
    /\ IsSome(response)
    /\ Get(response).type = Get(request).type
    /\ IF Get(response).ok
       THEN Get(response).bytes # NoDoc /\ Get(response).error = ""
       ELSE Get(response).bytes = NoDoc /\ Get(response).error # ""

\* C36: a message posted to the worker is eventually answered; an answer
\* is of the type of the request it answers, and has result bytes if ok and
\* an error if not; the worker posts only while a request is unanswered,
\* and posts once for it; and a request without bytes that finds nothing
\* cached is answered ok=false with "No bytes available" while the cache
\* stays empty: nothing was parsed.
C36_EveryMessageIsAnsweredOnce ==
    /\ AwaitingWorker ~> AnsweredInKind
    /\ [](IsSome(response) => AnsweredInKind)
    /\ [][IsSome(response') /\ response' # response =>
             AwaitingWorker /\ request' = request]_vars
    /\ [][(/\ AwaitingWorker
           /\ ~IsSome(Get(request).bytes)
           /\ cachedBytes = None
           /\ response' # response) =>
             /\ IsSome(response')
             /\ ~Get(response').ok
             /\ Get(response').error = "No bytes available"
             /\ Get(response').type = Get(request).type
             /\ cachedBytes' = None
             /\ cachedDoc' = None /\ cachedDoc = None]_vars

\* A request that relied on cached bytes found none and was refused.
C36_Witness ==
    /\ AnsweredInKind
    /\ ~IsSome(Get(request).bytes)
    /\ Get(response).error = "No bytes available"
    /\ cachedBytes = None
    /\ cachedDoc = None

\* The answer at the head of the outbox answers a preview request that is
\* not the one most recently issued.
StaleAnswerArrives ==
    /\ outbox # <<>>
    /\ IsSome(PostedAnswer(Head(outbox)).handler.msg.requestId)
    /\ PostedAnswer(Head(outbox)).handler.msg.requestId # Some(preview.requestId)

\* The answers that have reached the editor.
Delivered == {answer \in posted : \A k \in 1..Len(outbox) : outbox[k] # answer.handler.id}

\* C32: the delivery of the answer to a preview request that is not the
\* most recently issued one changes neither the displayed preview nor the
\* loading indicator; and once an ok answer to the most recently issued
\* request has been delivered, the displayed preview is the file with the
\* modifications of that request applied.
C32_StalePreviewsAreIgnored ==
    /\ [][(StaleAnswerArrives /\ outbox' = Tail(outbox)) => preview' = preview]_vars
    /\ [](\A answer \in Delivered :
             (answer.response.ok /\ answer.handler.msg.requestId = Some(preview.requestId)) =>
                 /\ IsSome(preview.afterPreviewBytes)
                 /\ Get(preview.afterPreviewBytes).pages =
                       applyModifications(Get(answer.handler.sourceDoc),
                                          answer.handler.msg.modifications).pages)

\* ------------------------------------------------------ the bundle's claim
\* The pages of the document stored for a file.
StoredPageCount(file) == Len(bytesStore[file.id].pages)

CoverPageCount == IF coverFile = None THEN 0 ELSE StoredPageCount(Get(coverFile))

\* The sum over the first n documents of 1 + their pages.
RECURSIVE TabbedPageCount(_)
TabbedPageCount(n) ==
    IF n = 0
    THEN 0
    ELSE TabbedPageCount(n - 1) + 1 + StoredPageCount(individualFiles[n])

\* C31: when the bundle has been generated, the tab list has one entry per
\* document, in order; the page number of TAB-i is 1 + the cover's pages +
\* the sum over the documents before i of (1 + their pages), and the page
\* at that position of the merged document is the TAB-i page, followed by
\* the pages of document i in order; the merged document has the cover's
\* pages + the sum over all documents of (1 + their pages) pages, and the
\* number drawn on the k-th of them is k. While the bundle is being made
\* the current page number is one more than the pages merged so far.
C31_BundlePagesAreNumberedInOrder ==
    /\ bundle.at \in {"cover", "files"} => bundle.currentPageNumber = Len(bundle.merged) + 1
    /\ bundle.at = "done" =>
          LET merged == Get(bundle.generatedPdf)
              N == CoverPageCount + TabbedPageCount(Len(individualFiles))
          IN  /\ Len(bundle.tabInfo) = Len(individualFiles)
              /\ Len(merged) = N
              /\ \A k \in 1..N : merged[k].stamp = k
              /\ \A k \in 1..CoverPageCount :
                    merged[k].source = "cover" /\ merged[k].page = k
              /\ \A i \in 1..Len(individualFiles) :
                    LET tab == bundle.tabInfo[i]
                    IN  /\ tab.tabNumber = i
                        /\ tab.file = individualFiles[i].id
                        /\ tab.pageNumber = 1 + CoverPageCount + TabbedPageCount(i - 1)
                        /\ merged[tab.pageNumber].source = "tab"
                        /\ merged[tab.pageNumber].of = i
                        /\ \A k \in 1..StoredPageCount(individualFiles[i]) :
                              /\ merged[tab.pageNumber + k].source = "file"
                              /\ merged[tab.pageNumber + k].of = i
                              /\ merged[tab.pageNumber + k].page = k

\* A bundle was generated from a cover of two pages and three documents,
\* the second of them of two pages: TAB-3 is on page 8.
C31_Witness ==
    /\ bundle.at = "done"
    /\ CoverPageCount = 2
    /\ Len(individualFiles) = 3
    /\ StoredPageCount(individualFiles[1]) = 1
    /\ StoredPageCount(individualFiles[2]) = 2
    /\ bundle.tabInfo[3].pageNumber = 8
    /\ Get(bundle.generatedPdf)[8].stamp = 8

====
